---- MODULE Spec2Model ----
(***************************************************************************)
(* A model of exp-go-cache: the N-tier read-through cache TieredCache with *)
(* singleflight de-duplication, its two-tier predecessor (local/remote),   *)
(* and the batch cache BatchTieredCache.                                   *)
(*                                                                         *)
(* Every call of a tier (Cacher.Get/Set/Delete, BatchGet/BatchSet), every  *)
(* entry into and exit from singleflight.Group.Do, and the start and the   *)
(* end of a compute function is one atomic step; callers interleave        *)
(* between these steps.  A tier answers according to its contents, or with *)
(* an infrastructure error (a non-miss error) that leaves it unchanged.    *)
(* Tiers do not expire or evict entries while a behaviour runs.            *)
(***************************************************************************)
EXTENDS Integers, Sequences, FiniteSets, TLC

\* ------------------------------------------------------------ bounds
\* the most tiers NewTieredCache / NewBatchTieredCache is given
MaxTiers == 3
\* the concurrent callers (goroutines) sharing one cache instance
NumCallers == 2
\* the calls one caller makes, one after the other
MaxCalls == 2
MaxKeys == 3

\* ------------------------------------------------------------ values
Keys == {"A", "B", "C"}
Values == {"v1", "v2"}
TTLs == {1, 2}
Callers == 1..NumCallers

\* var zero V
Zero == "zero"

\* an entry of a tier: the value and the ttl it was stored with
Entry(v, t) == [val |-> v, ttl |-> t]
NoEntry == [val |-> "absent", ttl |-> 0]
EmptyCache == [k \in Keys |-> NoEntry]

\* errors: nil, the miss sentinel, a tier's non-miss error, a compute error
Nil == [kind |-> "nil", tier |-> -1, op |-> "-"]
ErrCacheMiss == [kind |-> "cache miss", tier |-> -1, op |-> "-"]
TierErr(i, o) == [kind |-> "tier error", tier |-> i, op |-> o]
ComputeErr == [kind |-> "compute error", tier |-> -1, op |-> "-"]

\* (mutants: every error taken for a miss; no error taken for a miss)
IsMissAnyError(err) == err # Nil
IsMissNever(err) == FALSE
\* errors.Is(err, ErrCacheMiss)
IsMiss(err) == err = ErrCacheMiss

VARIABLES
  caches,      \* tc.caches / bc.caches: tier index -> (key -> entry)
  sfGroup,     \* tc.sfGroup: key -> the call in flight, if any
  pc,          \* each caller's position
  call,        \* each caller's current call: operation and arguments
  loc,         \* each caller's local variables
  ret,         \* what each caller's last call returned
  log,         \* the tier operations and computes of each caller's current call
  ncalls,      \* calls each caller has started
  impl,        \* which TieredCache: "tiers" (N tiers) or "localRemote" (two tiers)
  bcall,       \* each caller's current batch call: operation and arguments
  bloc,        \* each caller's local variables in a batch call
  bret,        \* what each caller's last batch call returned
  blog,        \* the tier operations and computes of each caller's current batch call
  hist,         \* history: the tiers when the current call began, and the call before it
  redis        \* a RedisCache.BatchGet call: its keys, pipeline and results

singleVars == <<sfGroup, call, loc, ret, log>>
batchVars == <<bcall, bloc, bret, blog>>
vars == <<caches, sfGroup, pc, call, loc, ret, log, ncalls, impl, bcall, bloc, bret,
          blog, hist, redis>>

\* len(tc.caches)
NumTiers == Cardinality(DOMAIN caches)
Tiers == DOMAIN caches

\* ------------------------------------------------------------ the tier contract
\* Cacher.Get: the outcomes a tier can answer with for key
CacherGet(c, key, i) ==
  { [val |-> IF c[key] = NoEntry THEN Zero ELSE c[key].val,
     err |-> IF c[key] = NoEntry THEN ErrCacheMiss ELSE Nil],
    [val |-> Zero, err |-> TierErr(i, "Get")] }

\* (mutant: a Set that keeps the entry the tier already holds)
CacherSetIfAbsent(c, key, value, ttl) ==
  IF c[key] = NoEntry THEN [c EXCEPT ![key] = Entry(value, ttl)] ELSE c
\* Cacher.Set: overwrites the entry for key
CacherSet(c, key, value, ttl) == [c EXCEPT ![key] = Entry(value, ttl)]

\* Cacher.Delete: removes the key; ErrCacheMiss if it was absent
CacherDelete(c, key) == [c EXCEPT ![key] = NoEntry]
CacherDeleteErr(c, key) == IF c[key] = NoEntry THEN ErrCacheMiss ELSE Nil

\* ------------------------------------------------------------ compute functions
\* ComputeFunc: the functions callers supply, by what they return
ComputeFns == {"fnV1", "fnV2", "fnFail"}
ComputeFn(f, key) ==
  CASE f = "fnV1" -> [val |-> "v1", err |-> Nil]
    [] f = "fnV2" -> [val |-> "v2", err |-> Nil]
    [] OTHER -> [val |-> Zero, err |-> ComputeErr]

\* a compute function that honours its context: it fails once the context it
\* was given is cancelled
CtxComputeFns == {"fnCtx"}
CtxErr == [kind |-> "context canceled", tier |-> -1, op |-> "-"]
ComputeFnCtx(f, context, key) ==
  IF f \in CtxComputeFns
  THEN IF context = "cancelled" THEN [val |-> Zero, err |-> CtxErr]
       ELSE [val |-> "v1", err |-> Nil]
  ELSE ComputeFn(f, key)

\* ------------------------------------------------------------ bookkeeping
NoCall == [inflight |-> FALSE, leader |-> 0]
NoArgs == [ttl |-> 0, op |-> "-", key |-> "-", value |-> Zero, computeFn |-> "-",
           ctx |-> "-"]
InitLoc == [val |-> Zero, err |-> Nil, i |-> 0, tierIndex |-> -1, inSf |-> FALSE]
NoRet == [val |-> Zero, err |-> Nil]

Event(e, i, v, t, err) == [val |-> v, ttl |-> t, tier |-> i, err |-> err, ev |-> e]
Logged(p, e) == [log EXCEPT ![p] = Append(@, e)]

\* a call of the log that invoked the compute function
Computed(l) == \E n \in 1..Len(l) : l[n].ev = "compute"

NoHist == [before |-> <<>>, prevCall |-> NoArgs, prevRet |-> NoRet,
           prevComputed |-> FALSE]
\* recorded when caller p begins a call: the tiers as they are, and the call
\* the caller made before
Recorded(p) == [before |-> caches, prevCall |-> call[p], prevRet |-> ret[p],
                prevComputed |-> Computed(log[p])]

\* caller p begins a call
Begin(p, args, at) ==
  /\ pc[p] \in {"idle", "done"}
  /\ ncalls[p] < MaxCalls
  /\ call' = [call EXCEPT ![p] = args]
  /\ loc' = [loc EXCEPT ![p] = InitLoc]
  /\ log' = [log EXCEPT ![p] = <<>>]
  /\ ret' = [ret EXCEPT ![p] = NoRet]
  /\ ncalls' = [ncalls EXCEPT ![p] = @ + 1]
  /\ pc' = [pc EXCEPT ![p] = at]
  /\ hist' = Recorded(p)
  /\ UNCHANGED <<caches, sfGroup, impl, batchVars, redis>>

\* ------------------------------------------------------------ TieredCache (N tiers)
\* Get(ctx, key, ttl, computeFn): entry
CallGet(p, key, ttl, computeFn) ==
  Begin(p, [ttl |-> ttl, op |-> "Get", key |-> key, value |-> Zero,
            computeFn |-> computeFn, ctx |-> "live"], "getCache")

\* Set(ctx, key, value, ttl): entry
CallSet(p, key, value, ttl) ==
  Begin(p, [ttl |-> ttl, op |-> "Set", key |-> key, value |-> value,
            computeFn |-> "-", ctx |-> "live"], "setCache")

\* Delete(ctx, key): entry
CallDelete(p, key) ==
  Begin(p, [ttl |-> 0, op |-> "Delete", key |-> key, value |-> Zero,
            computeFn |-> "-", ctx |-> "live"], "delete")

\* Get returns (or, inside the singleflight function, the function returns)
Leave(p, v, err) ==
  IF loc[p].inSf
  THEN /\ pc' = [pc EXCEPT ![p] = "sfDone"]
       /\ loc' = [loc EXCEPT ![p].val = v, ![p].err = err]
       /\ UNCHANGED ret
  ELSE /\ pc' = [pc EXCEPT ![p] = "done"]
       /\ ret' = [ret EXCEPT ![p] = [val |-> v, err |-> err]]
       /\ UNCHANGED loc

\* (mutant: the function goes straight to the compute function)
SfFnEntryNoDoubleCheck == "compute"
\* the first statement of the function Get hands to singleflight: the
\* double-check of the tiers
SfFnEntry == "getCache"

\* The N-tier TieredCache populates the upper tiers after a hit below the
\* first tier; the local/remote TieredCache returns the remote hit as it is
\* ("TODO: Populate L1 on L2 hit")
PopulatesUpperTiers == impl = "tiers"

\* (mutant: a hit does not end the traversal, the last tier holding the key wins)
GetCacheStepReadsAllTiers(p) ==
  /\ pc[p] = "getCache"
  /\ LET i == loc[p].i
         key == call[p].key
     IN \E r \in CacherGet(caches[i], key, i) :
          /\ log' = Logged(p, Event("Get", i, r.val, 0, r.err))
          /\ IF r.err # Nil /\ ~IsMiss(r.err)
             THEN Leave(p, Zero, r.err)
             ELSE IF i + 1 < NumTiers
             THEN /\ loc' = [loc EXCEPT ![p].i = i + 1,
                                        ![p].val = IF r.err = Nil THEN r.val ELSE @,
                                        ![p].tierIndex = IF r.err = Nil THEN i ELSE @]
                  /\ UNCHANGED <<pc, ret>>
             ELSE IF r.err = Nil
             THEN Leave(p, r.val, Nil)
             ELSE /\ pc' = [pc EXCEPT ![p] = IF loc[p].inSf THEN "compute" ELSE "sfDo"]
                  /\ UNCHANGED <<loc, ret>>
  /\ UNCHANGED <<caches, sfGroup, call, ncalls, impl, hist, batchVars, redis>>

\* getCache: one iteration of the loop over tc.caches, and what Get (or the
\* singleflight function) does with its result
GetCacheStep(p) ==
  /\ pc[p] = "getCache"
  /\ LET i == loc[p].i
         key == call[p].key
     IN \E r \in CacherGet(caches[i], key, i) :
          /\ log' = Logged(p, Event("Get", i, r.val, 0, r.err))
          /\ IF r.err = Nil
             THEN \* found in tier i
                  IF i > 0 /\ PopulatesUpperTiers
                  THEN /\ pc' = [pc EXCEPT ![p] = "populate"]
                       /\ loc' = [loc EXCEPT ![p].val = r.val, ![p].tierIndex = i,
                                             ![p].i = 0]
                       /\ UNCHANGED ret
                  ELSE Leave(p, r.val, Nil)
             ELSE IF ~IsMiss(r.err)
             THEN Leave(p, Zero, r.err)
             ELSE IF i + 1 < NumTiers
             THEN /\ loc' = [loc EXCEPT ![p].i = i + 1]
                  /\ UNCHANGED <<pc, ret>>
             ELSE \* not found in any cache
                  /\ pc' = [pc EXCEPT ![p] = IF loc[p].inSf THEN "compute" ELSE "sfDo"]
                  /\ UNCHANGED <<loc, ret>>
  /\ UNCHANGED <<caches, sfGroup, call, ncalls, impl, hist, batchVars, redis>>

\* (mutant: the loop stops one tier early)
PopulateBoundOffByOne(p) == loc[p].tierIndex - 1
\* populateUpperTiers: the loop runs while i < foundTierIndex
PopulateBound(p) == loc[p].tierIndex

\* (mutant: the upper tiers are given the ttl the entry was found with)
PopulateStepKeepsFoundTtl(p) ==
  /\ pc[p] = "populate"
  /\ LET i == loc[p].i
         key == call[p].key
         value == loc[p].val
         ttl == caches[loc[p].tierIndex][key].ttl
     IN \E err \in {Nil, TierErr(i, "Set")} :
          /\ log' = Logged(p, Event("Set", i, value, ttl, err))
          /\ caches' = IF err = Nil
                       THEN [caches EXCEPT ![i] = CacherSet(@, key, value, ttl)]
                       ELSE caches
          /\ IF err = Nil /\ i + 1 < PopulateBound(p)
             THEN /\ loc' = [loc EXCEPT ![p].i = i + 1]
                  /\ UNCHANGED <<pc, ret>>
             ELSE Leave(p, value, Nil)
  /\ UNCHANGED <<sfGroup, call, ncalls, impl, hist, batchVars, redis>>

\* populateUpperTiers: one iteration of the loop over the tiers above the hit;
\* the first Set error ends the loop, and Get ignores what it returns
PopulateStep(p) ==
  /\ pc[p] = "populate"
  /\ LET i == loc[p].i
         key == call[p].key
         value == loc[p].val
         ttl == call[p].ttl
     IN \E err \in {Nil, TierErr(i, "Set")} :
          /\ log' = Logged(p, Event("Set", i, value, ttl, err))
          /\ caches' = IF err = Nil
                       THEN [caches EXCEPT ![i] = CacherSet(@, key, value, ttl)]
                       ELSE caches
          /\ IF err = Nil /\ i + 1 < PopulateBound(p)
             THEN /\ loc' = [loc EXCEPT ![p].i = i + 1]
                  /\ UNCHANGED <<pc, ret>>
             ELSE Leave(p, value, Nil)
  /\ UNCHANGED <<sfGroup, call, ncalls, impl, hist, batchVars, redis>>

\* (mutant: Do never joins a call in flight)
SfDoNeverJoins(p) ==
  /\ pc[p] = "sfDo"
  /\ sfGroup' = [sfGroup EXCEPT ![call[p].key] = [inflight |-> TRUE, leader |-> p]]
  /\ pc' = [pc EXCEPT ![p] = SfFnEntry]
  /\ loc' = [loc EXCEPT ![p].i = 0, ![p].inSf = TRUE]
  /\ UNCHANGED <<caches, call, ret, log, ncalls, impl, hist, batchVars, redis>>

\* (mutant: one call in flight at a time for the whole group, whatever its key)
SfDoOneCallAtATime(p) ==
  /\ pc[p] = "sfDo"
  /\ LET key == call[p].key
     IN IF \E k \in Keys : sfGroup[k].inflight
        THEN /\ pc' = [pc EXCEPT ![p] = "sfWait"]
             /\ UNCHANGED <<sfGroup, loc>>
        ELSE /\ sfGroup' = [sfGroup EXCEPT ![key] = [inflight |-> TRUE, leader |-> p]]
             /\ pc' = [pc EXCEPT ![p] = SfFnEntry]
             /\ loc' = [loc EXCEPT ![p].i = 0, ![p].inSf = TRUE]
  /\ UNCHANGED <<caches, call, ret, log, ncalls, impl, hist, batchVars, redis>>

\* singleflight.Group.Do(key, fn): under the group's mutex, join the call in
\* flight for key and wait for it, or register a new call and run fn
SfDo(p) ==
  /\ pc[p] = "sfDo"
  /\ LET key == call[p].key
     IN IF sfGroup[key].inflight
        THEN /\ pc' = [pc EXCEPT ![p] = "sfWait"]
             /\ UNCHANGED <<sfGroup, loc>>
        ELSE /\ sfGroup' = [sfGroup EXCEPT ![key] = [inflight |-> TRUE, leader |-> p]]
             /\ pc' = [pc EXCEPT ![p] = SfFnEntry]
             /\ loc' = [loc EXCEPT ![p].i = 0, ![p].inSf = TRUE]
  /\ UNCHANGED <<caches, call, ret, log, ncalls, impl, hist, batchVars, redis>>

\* computeFn(ctx, key) is called
ComputeStart(p) ==
  /\ pc[p] = "compute"
  /\ pc' = [pc EXCEPT ![p] = "computing"]
  /\ UNCHANGED <<caches, sfGroup, call, loc, ret, log, ncalls, impl, hist, batchVars, redis>>

\* (mutant: the computed value is returned without being written to the tiers)
ComputeEndNoWriteThrough(p) ==
  /\ pc[p] = "computing"
  /\ LET r == ComputeFn(call[p].computeFn, call[p].key)
     IN /\ log' = Logged(p, Event("compute", -1, r.val, 0, r.err))
        /\ Leave(p, r.val, r.err)
  /\ UNCHANGED <<caches, sfGroup, call, ncalls, impl, hist, batchVars, redis>>

\* (mutant: a failed compute is cached as the zero value)
ComputeEndCachesFailure(p) ==
  /\ pc[p] = "computing"
  /\ LET r == ComputeFn(call[p].computeFn, call[p].key)
     IN /\ log' = Logged(p, Event("compute", -1, r.val, 0, r.err))
        /\ pc' = [pc EXCEPT ![p] = "setCache"]
        /\ loc' = [loc EXCEPT ![p].val = r.val, ![p].i = 0]
        /\ UNCHANGED ret
  /\ UNCHANGED <<caches, sfGroup, call, ncalls, impl, hist, batchVars, redis>>

\* (mutant: the compute function is given a context that is cancelled as soon
\* as the context of a caller waiting for the call is)
ComputeCtxMergedWithWaiters(p) ==
  IF \E q \in Callers : pc[q] = "sfWait" /\ call[q].key = call[p].key
                          /\ call[q].ctx = "cancelled"
  THEN "cancelled"
  ELSE call[p].ctx
\* computeFn(ctx, key): the context is the one of the caller whose Get runs the
\* function
ComputeCtx(p) == call[p].ctx

\* the caller of Get cancels the context it passed; nothing in Get or in Do
\* selects on it
CancelCtx(p) ==
  /\ pc[p] \notin {"idle", "done"}
  /\ call[p].ctx = "live"
  /\ call' = [call EXCEPT ![p].ctx = "cancelled"]
  /\ log' = Logged(p, Event(IF pc[p] = "sfWait" THEN "cancel waiting" ELSE "cancel",
                            -1, Zero, 0, Nil))
  /\ UNCHANGED <<caches, sfGroup, pc, loc, ret, ncalls, impl, hist, batchVars, redis>>

\* computeFn returns: an error ends the singleflight function, a value goes on
\* to setCache
ComputeEnd(p) ==
  /\ pc[p] = "computing"
  /\ LET r == ComputeFnCtx(call[p].computeFn, ComputeCtx(p), call[p].key)
     IN /\ log' = Logged(p, Event("compute", -1, r.val, 0, r.err))
        /\ IF r.err # Nil
           THEN Leave(p, Zero, r.err)
           ELSE /\ pc' = [pc EXCEPT ![p] = "setCache"]
                /\ loc' = [loc EXCEPT ![p].val = r.val, ![p].i = 0]
                /\ UNCHANGED ret
  /\ UNCHANGED <<caches, sfGroup, call, ncalls, impl, hist, batchVars, redis>>

\* the value setCache writes: Set's argument, or what Get computed
SetValue(p) == IF call[p].op = "Set" THEN call[p].value ELSE loc[p].val

\* (mutant: a failed Set is skipped and the walk goes on)
SetCacheStepBestEffort(p) ==
  /\ pc[p] = "setCache"
  /\ LET i == loc[p].i
         key == call[p].key
         value == SetValue(p)
         ttl == call[p].ttl
     IN \E err \in {Nil, TierErr(i, "Set")} :
          /\ log' = Logged(p, Event("Set", i, value, ttl, err))
          /\ caches' = IF err = Nil
                       THEN [caches EXCEPT ![i] = CacherSet(@, key, value, ttl)]
                       ELSE caches
          /\ IF i + 1 < NumTiers
             THEN /\ loc' = [loc EXCEPT ![p].i = i + 1]
                  /\ UNCHANGED <<pc, ret>>
             ELSE Leave(p, IF call[p].op = "Set" THEN Zero ELSE value, Nil)
  /\ UNCHANGED <<sfGroup, call, ncalls, impl, hist, batchVars, redis>>

\* (mutant: the write-through uses the largest ttl among the caller running the
\* call and the callers waiting for it)
SetCacheStepLongestTtl(p) ==
  /\ pc[p] = "setCache"
  /\ LET i == loc[p].i
         key == call[p].key
         value == SetValue(p)
         sharers == {p} \cup {q \in Callers : pc[q] = "sfWait" /\ call[q].key = key}
         ttl == CHOOSE t \in {call[q].ttl : q \in sharers} :
                  \A u \in {call[q].ttl : q \in sharers} : u <= t
     IN \E err \in {Nil, TierErr(i, "Set")} :
          /\ log' = Logged(p, Event("Set", i, value, ttl, err))
          /\ caches' = IF err = Nil
                       THEN [caches EXCEPT ![i] = CacherSet(@, key, value, ttl)]
                       ELSE caches
          /\ IF err # Nil
             THEN Leave(p, Zero, err)
             ELSE IF i + 1 < NumTiers
             THEN /\ loc' = [loc EXCEPT ![p].i = i + 1]
                  /\ UNCHANGED <<pc, ret>>
             ELSE Leave(p, IF call[p].op = "Set" THEN Zero ELSE value, Nil)
  /\ UNCHANGED <<sfGroup, call, ncalls, impl, hist, batchVars, redis>>

\* setCache: one iteration of the loop over tc.caches; the first Set error is
\* returned and ends the loop
SetCacheStep(p) ==
  /\ pc[p] = "setCache"
  /\ LET i == loc[p].i
         key == call[p].key
         value == SetValue(p)
         ttl == call[p].ttl
     IN \E err \in {Nil, TierErr(i, "Set")} :
          /\ log' = Logged(p, Event("Set", i, value, ttl, err))
          /\ caches' = IF err = Nil
                       THEN [caches EXCEPT ![i] = CacherSet(@, key, value, ttl)]
                       ELSE caches
          /\ IF err # Nil
             THEN Leave(p, Zero, err)
             ELSE IF i + 1 < NumTiers
             THEN /\ loc' = [loc EXCEPT ![p].i = i + 1]
                  /\ UNCHANGED <<pc, ret>>
             ELSE Leave(p, IF call[p].op = "Set" THEN Zero ELSE value, Nil)
  /\ UNCHANGED <<sfGroup, call, ncalls, impl, hist, batchVars, redis>>

\* the callers waiting in Do for the call in flight for key
Waiters(key) == {q \in Callers : pc[q] = "sfWait" /\ call[q].key = key}

\* (mutant: the released waiters look the key up again instead of returning
\* the shared result)
SfDoneWaitersRetry(p) ==
  /\ pc[p] = "sfDone"
  /\ LET key == call[p].key
         W == Waiters(key)
     IN /\ sfGroup' = [sfGroup EXCEPT ![key] = NoCall]
        /\ pc' = [q \in Callers |-> IF q = p THEN "sfReturn"
                                    ELSE IF q \in W THEN "getCache" ELSE pc[q]]
        /\ loc' = [q \in Callers |->
                     IF q \in W THEN [loc[q] EXCEPT !.i = 0] ELSE loc[q]]
        /\ log' = [q \in Callers |->
                     IF q \in W
                     THEN Append(log[q], Event("shared", -1, loc[p].val, 0, loc[p].err))
                     ELSE log[q]]
  /\ UNCHANGED <<caches, call, ret, ncalls, impl, hist, batchVars, redis>>

\* (mutant: the completed call is left in the group's map)
SfDoneKeepsRecord(p) ==
  /\ pc[p] = "sfDone"
  /\ LET key == call[p].key
         W == Waiters(key)
     IN /\ pc' = [q \in Callers |-> IF q = p \/ q \in W THEN "sfReturn" ELSE pc[q]]
        /\ loc' = [q \in Callers |->
                     IF q \in W
                     THEN [loc[q] EXCEPT !.val = loc[p].val, !.err = loc[p].err]
                     ELSE loc[q]]
        /\ log' = [q \in Callers |->
                     IF q \in W
                     THEN Append(log[q], Event("shared", -1, loc[p].val, 0, loc[p].err))
                     ELSE log[q]]
  /\ UNCHANGED <<caches, sfGroup, call, ret, ncalls, impl, hist, batchVars, redis>>

\* (mutant: the call is removed from the map but its waiters are not released)
SfDoneForgetsWaiters(p) ==
  /\ pc[p] = "sfDone"
  /\ sfGroup' = [sfGroup EXCEPT ![call[p].key] = NoCall]
  /\ pc' = [pc EXCEPT ![p] = "sfReturn"]
  /\ UNCHANGED <<caches, call, loc, ret, log, ncalls, impl, hist, batchVars, redis>>

\* doCall's deferred part: under the mutex the call (c.val, c.err) is complete,
\* the waiters are released (c.wg.Done) and the call is removed from the map
SfDone(p) ==
  /\ pc[p] = "sfDone"
  /\ LET key == call[p].key
         W == Waiters(key)
     IN /\ sfGroup' = [sfGroup EXCEPT ![key] = NoCall]
        /\ pc' = [q \in Callers |-> IF q = p \/ q \in W THEN "sfReturn" ELSE pc[q]]
        /\ loc' = [q \in Callers |->
                     IF q \in W
                     THEN [loc[q] EXCEPT !.val = loc[p].val, !.err = loc[p].err]
                     ELSE loc[q]]
        /\ log' = [q \in Callers |->
                     IF q \in W
                     THEN Append(log[q], Event("shared", -1, loc[p].val, 0, loc[p].err))
                     ELSE log[q]]
  /\ UNCHANGED <<caches, call, ret, ncalls, impl, hist, batchVars, redis>>

\* after Do: if err != nil { return zero, err }; return result.(V), nil
SfReturn(p) ==
  /\ pc[p] = "sfReturn"
  /\ pc' = [pc EXCEPT ![p] = "done"]
  /\ ret' = [ret EXCEPT ![p] =
               IF loc[p].err # Nil THEN [val |-> Zero, err |-> loc[p].err]
               ELSE [val |-> loc[p].val, err |-> Nil]]
  /\ UNCHANGED <<caches, sfGroup, call, loc, log, ncalls, impl, hist, batchVars, redis>>

\* (mutant: a failing tier is skipped and the walk goes on)
DeleteStepBestEffort(p) ==
  /\ pc[p] = "delete"
  /\ LET i == loc[p].i
         key == call[p].key
     IN \E err \in {CacherDeleteErr(caches[i], key), TierErr(i, "Delete")} :
          /\ log' = Logged(p, Event("Delete", i, Zero, 0, err))
          /\ caches' = IF err = Nil
                       THEN [caches EXCEPT ![i] = CacherDelete(@, key)]
                       ELSE caches
          /\ IF i + 1 < NumTiers
             THEN /\ loc' = [loc EXCEPT ![p].i = i + 1]
                  /\ UNCHANGED <<pc, ret>>
             ELSE Leave(p, Zero, IF IsMiss(err) THEN Nil ELSE err)
  /\ UNCHANGED <<sfGroup, call, ncalls, impl, hist, batchVars, redis>>

\* Delete: one iteration of the loop over tc.caches; a miss goes on to the next
\* tier, any other error is returned
DeleteStep(p) ==
  /\ pc[p] = "delete"
  /\ LET i == loc[p].i
         key == call[p].key
     IN \E err \in {CacherDeleteErr(caches[i], key), TierErr(i, "Delete")} :
          /\ log' = Logged(p, Event("Delete", i, Zero, 0, err))
          /\ caches' = IF err = Nil
                       THEN [caches EXCEPT ![i] = CacherDelete(@, key)]
                       ELSE caches
          /\ IF err # Nil /\ ~IsMiss(err)
             THEN Leave(p, Zero, err)
             ELSE IF i + 1 < NumTiers
             THEN /\ loc' = [loc EXCEPT ![p].i = i + 1]
                  /\ UNCHANGED <<pc, ret>>
             ELSE Leave(p, Zero, Nil)
  /\ UNCHANGED <<sfGroup, call, ncalls, impl, hist, batchVars, redis>>

\* ------------------------------------------------------------ the batch tier contract
\* a map[string]V: a function whose domain is the set of its keys
EmptyMap == [k \in {} |-> Zero]
MapOver(S, v) == [k \in S |-> v]
\* for k, v := range from { into[k] = v }
Merged(into, from) == from @@ into

\* BatchCacher.BatchGet: the keys found, missing keys left out
BatchCacherGet(c, keys) == [k \in {x \in keys : c[x] # NoEntry} |-> c[k].val]

\* BatchCacher.BatchSet: stores every item with the one ttl
BatchCacherSet(c, items, ttl) ==
  [k \in Keys |-> IF k \in DOMAIN items THEN Entry(items[k], ttl) ELSE c[k]]

\* BatchComputeFunc: the functions callers supply, by what they return for the
\* keys they are given
BatchComputeFns == {"bfnAll", "bfnNone", "bfnNotB", "bfnExtra", "bfnFail"}
BatchComputeFn(f, keys) ==
  CASE f = "bfnAll" -> [err |-> Nil, vals |-> MapOver(keys, "v2")]
    [] f = "bfnNone" -> [err |-> Nil, vals |-> EmptyMap]
    [] f = "bfnNotB" -> [err |-> Nil, vals |-> MapOver(keys \ {"B"}, "v2")]
    [] f = "bfnExtra" -> [err |-> Nil, vals |-> MapOver(Keys, "v2")]
    [] OTHER -> [err |-> ComputeErr, vals |-> EmptyMap]

\* (mutant: nothing is filtered out)
filterMissingKeysKeepsAll(keys, foundKeys) == keys
\* filterMissingKeys: the keys not present in foundKeys
filterMissingKeys(keys, foundKeys) == {k \in keys : k \notin DOMAIN foundKeys}

\* (mutant: only hits below the second tier are populated upwards)
PopulatesAboveOffByOne(tierIndex) == tierIndex > 1
\* BatchGet populates the upper tiers if tierIndex > 0
PopulatesAbove(tierIndex) == tierIndex > 0

NoBatchArgs == [ttl |-> 0, op |-> "-", keys |-> {}, items |-> EmptyMap,
                batchComputeFn |-> "-"]
InitBatchLoc == [i |-> 0, tierIndex |-> 0, results |-> EmptyMap, remainingKeys |-> {},
                 tierResults |-> EmptyMap, computedValues |-> EmptyMap]
NoBatchRet == [err |-> Nil, results |-> EmptyMap]
BatchEvent(e, i, keys, items, t, err) ==
  [ttl |-> t, tier |-> i, err |-> err, ev |-> e, keys |-> keys, items |-> items]
BatchLogged(p, e) == [blog EXCEPT ![p] = Append(@, e)]

\* ------------------------------------------------------------ BatchTieredCache
\* BatchGet returns
BatchReturn(p, results, err) ==
  /\ pc' = [pc EXCEPT ![p] = "done"]
  /\ bret' = [bret EXCEPT ![p] = [err |-> err, results |-> results]]

\* BatchGet(ctx, keys, ttl, batchComputeFn): entry; no keys, nothing to do
CallBatchGet(p, keys, ttl, batchComputeFn) ==
  /\ pc[p] \in {"idle", "done"}
  /\ ncalls[p] < MaxCalls
  /\ ncalls' = [ncalls EXCEPT ![p] = @ + 1]
  /\ bcall' = [bcall EXCEPT ![p] = [ttl |-> ttl, op |-> "BatchGet", keys |-> keys,
                                    items |-> EmptyMap, batchComputeFn |-> batchComputeFn]]
  /\ bloc' = [bloc EXCEPT ![p] = [InitBatchLoc EXCEPT !.remainingKeys = keys]]
  /\ blog' = [blog EXCEPT ![p] = <<>>]
  /\ IF keys = {}
     THEN BatchReturn(p, EmptyMap, Nil)
     ELSE /\ pc' = [pc EXCEPT ![p] = "batchGetTier"]
          /\ bret' = [bret EXCEPT ![p] = NoBatchRet]
  /\ hist' = Recorded(p)
  /\ UNCHANGED <<caches, impl, singleVars, redis>>

\* after tier i: the next tier while keys remain; else the early return when
\* every key was found, or the batch compute
AfterTier(p, i, results, remainingKeys) ==
  IF i + 1 < NumTiers /\ remainingKeys # {}
  THEN /\ bloc' = [bloc EXCEPT ![p].i = i + 1, ![p].results = results,
                               ![p].remainingKeys = remainingKeys]
       /\ pc' = [pc EXCEPT ![p] = "batchGetTier"]
       /\ UNCHANGED bret
  ELSE IF remainingKeys = {}
  THEN /\ BatchReturn(p, results, Nil)
       /\ bloc' = [bloc EXCEPT ![p].results = results,
                               ![p].remainingKeys = remainingKeys]
  ELSE /\ bloc' = [bloc EXCEPT ![p].results = results,
                               ![p].remainingKeys = remainingKeys]
       /\ pc' = [pc EXCEPT ![p] = "batchCompute"]
       /\ UNCHANGED bret

\* (mutant: a tier error ends the call)
BatchGetTierStepAbortsOnError(p) ==
  /\ pc[p] = "batchGetTier"
  /\ LET i == bloc[p].i
         remainingKeys == bloc[p].remainingKeys
         results == bloc[p].results
     IN \E err \in {Nil, TierErr(i, "BatchGet")} :
          LET tierResults == IF err = Nil THEN BatchCacherGet(caches[i], remainingKeys)
                             ELSE EmptyMap
          IN /\ blog' = BatchLogged(p, BatchEvent("BatchGet", i, remainingKeys,
                                                  tierResults, 0, err))
             /\ IF err # Nil
                THEN BatchReturn(p, results, err) /\ UNCHANGED bloc
                ELSE IF DOMAIN tierResults # {}
                THEN IF PopulatesAbove(i)
                     THEN /\ bloc' = [bloc EXCEPT ![p].results = Merged(results, tierResults),
                                                  ![p].tierResults = tierResults,
                                                  ![p].tierIndex = 0]
                          /\ pc' = [pc EXCEPT ![p] = "batchPopulate"]
                          /\ UNCHANGED bret
                     ELSE AfterTier(p, i, Merged(results, tierResults),
                                    filterMissingKeys(remainingKeys, tierResults))
                ELSE AfterTier(p, i, results, remainingKeys)
  /\ UNCHANGED <<caches, ncalls, impl, hist, bcall, singleVars, redis>>

\* BatchGet: one iteration of the loop over bc.caches: the tier's BatchGet of
\* the remaining keys; a tier error or an empty answer changes nothing
BatchGetTierStep(p) ==
  /\ pc[p] = "batchGetTier"
  /\ LET i == bloc[p].i
         remainingKeys == bloc[p].remainingKeys
         results == bloc[p].results
     IN \E err \in {Nil, TierErr(i, "BatchGet")} :
          LET tierResults == IF err = Nil THEN BatchCacherGet(caches[i], remainingKeys)
                             ELSE EmptyMap
          IN /\ blog' = BatchLogged(p, BatchEvent("BatchGet", i, remainingKeys,
                                                  tierResults, 0, err))
             /\ IF err = Nil /\ DOMAIN tierResults # {}
                THEN IF PopulatesAbove(i)
                     THEN /\ bloc' = [bloc EXCEPT ![p].results = Merged(results, tierResults),
                                                  ![p].tierResults = tierResults,
                                                  ![p].tierIndex = 0]
                          /\ pc' = [pc EXCEPT ![p] = "batchPopulate"]
                          /\ UNCHANGED bret
                     ELSE AfterTier(p, i, Merged(results, tierResults),
                                    filterMissingKeys(remainingKeys, tierResults))
                ELSE AfterTier(p, i, results, remainingKeys)
  /\ UNCHANGED <<caches, ncalls, impl, hist, bcall, singleVars, redis>>

\* populateUpperTiers: one iteration of the loop over the tiers above tier i;
\* the first BatchSet error ends the loop, and BatchGet ignores what it returns
BatchPopulateStep(p) ==
  /\ pc[p] = "batchPopulate"
  /\ LET i == bloc[p].tierIndex
         items == bloc[p].tierResults
         ttl == bcall[p].ttl
     IN \E err \in {Nil, TierErr(i, "BatchSet")} :
          /\ blog' = BatchLogged(p, BatchEvent("BatchSet", i, DOMAIN items, items, ttl, err))
          /\ caches' = IF err = Nil
                       THEN [caches EXCEPT ![i] = BatchCacherSet(@, items, ttl)]
                       ELSE caches
          /\ IF err = Nil /\ i + 1 < bloc[p].i
             THEN /\ bloc' = [bloc EXCEPT ![p].tierIndex = i + 1]
                  /\ UNCHANGED <<pc, bret>>
             ELSE AfterTier(p, bloc[p].i, bloc[p].results,
                            filterMissingKeys(bloc[p].remainingKeys, items))
  /\ UNCHANGED <<ncalls, impl, hist, bcall, singleVars, redis>>

\* (mutant: a call whose keys another call is already computing does not compute)
BatchComputeStartDeduplicated(p) ==
  /\ pc[p] = "batchCompute"
  /\ IF \E q \in Callers \ {p} :
          pc[q] = "batchComputing" /\ bloc[q].remainingKeys = bloc[p].remainingKeys
     THEN BatchReturn(p, bloc[p].results, Nil)
     ELSE pc' = [pc EXCEPT ![p] = "batchComputing"] /\ UNCHANGED bret
  /\ UNCHANGED <<caches, ncalls, impl, hist, bcall, bloc, blog, singleVars, redis>>

\* batchComputeFn(ctx, remainingKeys) is called
BatchComputeStart(p) ==
  /\ pc[p] = "batchCompute"
  /\ pc' = [pc EXCEPT ![p] = "batchComputing"]
  /\ UNCHANGED <<caches, ncalls, impl, hist, batchVars, singleVars, redis>>

\* (mutant: on a compute error the results found in the tiers are dropped)
BatchComputeEndDropsResults(p) ==
  /\ pc[p] = "batchComputing"
  /\ LET remainingKeys == bloc[p].remainingKeys
         r == BatchComputeFn(bcall[p].batchComputeFn, remainingKeys)
     IN /\ blog' = BatchLogged(p, BatchEvent("compute", -1, remainingKeys, r.vals, 0, r.err))
        /\ IF r.err # Nil \/ DOMAIN r.vals = {}
           THEN BatchReturn(p, IF r.err # Nil THEN EmptyMap ELSE bloc[p].results, r.err)
                /\ UNCHANGED bloc
           ELSE /\ bloc' = [bloc EXCEPT ![p].computedValues = r.vals, ![p].i = 0]
                /\ pc' = [pc EXCEPT ![p] = "batchGetSet"]
                /\ UNCHANGED bret
  /\ UNCHANGED <<caches, ncalls, impl, hist, bcall, singleVars, redis>>

\* (mutant: computed values for keys that were not asked for are discarded)
BatchComputeEndKeepsRequestedOnly(p) ==
  /\ pc[p] = "batchComputing"
  /\ LET remainingKeys == bloc[p].remainingKeys
         r == BatchComputeFn(bcall[p].batchComputeFn, remainingKeys)
         kept == [k \in DOMAIN r.vals \cap remainingKeys |-> r.vals[k]]
     IN /\ blog' = BatchLogged(p, BatchEvent("compute", -1, remainingKeys, r.vals, 0, r.err))
        /\ IF r.err # Nil
           THEN BatchReturn(p, bloc[p].results, r.err) /\ UNCHANGED bloc
           ELSE IF DOMAIN kept = {}
           THEN BatchReturn(p, bloc[p].results, Nil) /\ UNCHANGED bloc
           ELSE /\ bloc' = [bloc EXCEPT ![p].computedValues = kept, ![p].i = 0]
                /\ pc' = [pc EXCEPT ![p] = "batchGetSet"]
                /\ UNCHANGED bret
  /\ UNCHANGED <<caches, ncalls, impl, hist, bcall, singleVars, redis>>

\* batchComputeFn returns: an error is returned with the results so far; an
\* empty map is not written
BatchComputeEnd(p) ==
  /\ pc[p] = "batchComputing"
  /\ LET remainingKeys == bloc[p].remainingKeys
         r == BatchComputeFn(bcall[p].batchComputeFn, remainingKeys)
     IN /\ blog' = BatchLogged(p, BatchEvent("compute", -1, remainingKeys, r.vals, 0, r.err))
        /\ IF r.err # Nil
           THEN BatchReturn(p, bloc[p].results, r.err) /\ UNCHANGED bloc
           ELSE IF DOMAIN r.vals = {}
           THEN BatchReturn(p, bloc[p].results, Nil) /\ UNCHANGED bloc
           ELSE /\ bloc' = [bloc EXCEPT ![p].computedValues = r.vals, ![p].i = 0]
                /\ pc' = [pc EXCEPT ![p] = "batchGetSet"]
                /\ UNCHANGED bret
  /\ UNCHANGED <<caches, ncalls, impl, hist, bcall, singleVars, redis>>

\* (mutant: the first failing BatchSet ends the loop and is returned)
BatchGetSetStepStopsAtError(p) ==
  /\ pc[p] = "batchGetSet"
  /\ LET i == bloc[p].i
         items == bloc[p].computedValues
         ttl == bcall[p].ttl
     IN \E err \in {Nil, TierErr(i, "BatchSet")} :
          /\ blog' = BatchLogged(p, BatchEvent("BatchSet", i, DOMAIN items, items, ttl, err))
          /\ caches' = IF err = Nil
                       THEN [caches EXCEPT ![i] = BatchCacherSet(@, items, ttl)]
                       ELSE caches
          /\ IF err = Nil /\ i + 1 < NumTiers
             THEN /\ bloc' = [bloc EXCEPT ![p].i = i + 1]
                  /\ UNCHANGED <<pc, bret>>
             ELSE /\ BatchReturn(p, Merged(bloc[p].results, items), err)
                  /\ bloc' = [bloc EXCEPT ![p].results = Merged(bloc[p].results, items)]
  /\ UNCHANGED <<ncalls, impl, hist, bcall, singleVars, redis>>

\* BatchGet: one iteration of the loop that writes the computed values to every
\* tier, whatever a tier's BatchSet returns; then they are added to the results
BatchGetSetStep(p) ==
  /\ pc[p] = "batchGetSet"
  /\ LET i == bloc[p].i
         items == bloc[p].computedValues
         ttl == bcall[p].ttl
     IN \E err \in {Nil, TierErr(i, "BatchSet")} :
          /\ blog' = BatchLogged(p, BatchEvent("BatchSet", i, DOMAIN items, items, ttl, err))
          /\ caches' = IF err = Nil
                       THEN [caches EXCEPT ![i] = BatchCacherSet(@, items, ttl)]
                       ELSE caches
          /\ IF i + 1 < NumTiers
             THEN /\ bloc' = [bloc EXCEPT ![p].i = i + 1]
                  /\ UNCHANGED <<pc, bret>>
             ELSE /\ BatchReturn(p, Merged(bloc[p].results, items), Nil)
                  /\ bloc' = [bloc EXCEPT ![p].results = Merged(bloc[p].results, items)]
  /\ UNCHANGED <<ncalls, impl, hist, bcall, singleVars, redis>>

\* BatchSet(ctx, items, ttl): entry; no items, nothing to do
CallBatchSet(p, items, ttl) ==
  /\ pc[p] \in {"idle", "done"}
  /\ ncalls[p] < MaxCalls
  /\ ncalls' = [ncalls EXCEPT ![p] = @ + 1]
  /\ bcall' = [bcall EXCEPT ![p] = [ttl |-> ttl, op |-> "BatchSet", keys |-> {},
                                    items |-> items, batchComputeFn |-> "-"]]
  /\ bloc' = [bloc EXCEPT ![p] = InitBatchLoc]
  /\ blog' = [blog EXCEPT ![p] = <<>>]
  /\ IF DOMAIN items = {}
     THEN BatchReturn(p, EmptyMap, Nil)
     ELSE /\ pc' = [pc EXCEPT ![p] = "batchSet"]
          /\ bret' = [bret EXCEPT ![p] = NoBatchRet]
  /\ hist' = Recorded(p)
  /\ UNCHANGED <<caches, impl, singleVars, redis>>

\* (mutant: a failing tier is skipped and the walk goes on)
BatchSetStepBestEffort(p) ==
  /\ pc[p] = "batchSet"
  /\ LET i == bloc[p].i
         items == bcall[p].items
         ttl == bcall[p].ttl
     IN \E err \in {Nil, TierErr(i, "BatchSet")} :
          /\ blog' = BatchLogged(p, BatchEvent("BatchSet", i, DOMAIN items, items, ttl, err))
          /\ caches' = IF err = Nil
                       THEN [caches EXCEPT ![i] = BatchCacherSet(@, items, ttl)]
                       ELSE caches
          /\ IF i + 1 < NumTiers
             THEN /\ bloc' = [bloc EXCEPT ![p].i = i + 1]
                  /\ UNCHANGED <<pc, bret>>
             ELSE BatchReturn(p, EmptyMap, err) /\ UNCHANGED bloc
  /\ UNCHANGED <<ncalls, impl, hist, bcall, singleVars, redis>>

\* BatchSet: one iteration of the loop over bc.caches; the first BatchSet error
\* is returned and ends the loop
BatchSetStep(p) ==
  /\ pc[p] = "batchSet"
  /\ LET i == bloc[p].i
         items == bcall[p].items
         ttl == bcall[p].ttl
     IN \E err \in {Nil, TierErr(i, "BatchSet")} :
          /\ blog' = BatchLogged(p, BatchEvent("BatchSet", i, DOMAIN items, items, ttl, err))
          /\ caches' = IF err = Nil
                       THEN [caches EXCEPT ![i] = BatchCacherSet(@, items, ttl)]
                       ELSE caches
          /\ IF err # Nil
             THEN BatchReturn(p, EmptyMap, err) /\ UNCHANGED bloc
             ELSE IF i + 1 < NumTiers
             THEN /\ bloc' = [bloc EXCEPT ![p].i = i + 1]
                  /\ UNCHANGED <<pc, bret>>
             ELSE BatchReturn(p, EmptyMap, Nil) /\ UNCHANGED bloc
  /\ UNCHANGED <<ncalls, impl, hist, bcall, singleVars, redis>>

\* ------------------------------------------------------------ RedisCache
\* what Redis answers to one GET of the pipeline: no such key (redis.Nil),
\* another error (the connection, the pipeline, the command), or the bytes stored
RedisNil == "redis.Nil"
RedisErr == "redis error"
Bytes == {"json:v1", "json:v2", "garbage"}
CmdResults == {RedisNil, RedisErr} \cup Bytes
\* Coder.Decode: bytes to a value, or an error
Decode(b) ==
  CASE b = "json:v1" -> [val |-> "v1", err |-> Nil]
    [] b = "json:v2" -> [val |-> "v2", err |-> Nil]
    [] OTHER -> [val |-> Zero, err |-> [kind |-> "decode error", tier |-> -1, op |-> "-"]]

\* the key slices BatchGet is called with: up to MaxKeys keys, repeats allowed
RedisKeys == {"A", "B"}
KeySlices == UNION {[1..n -> RedisKeys] : n \in 0..MaxKeys}

NoRedisCall == [err |-> Nil, i |-> 0, keys |-> <<>>, results |-> EmptyMap,
                cmds |-> <<>>, stage |-> "idle"]

\* RedisCache.BatchGet(ctx, keys): entry; no keys, nothing to do; otherwise the
\* GETs are queued on a pipeline
CallRedisBatchGet(keys) ==
  /\ redis.stage = "idle"
  /\ redis' = [redis EXCEPT !.keys = keys,
                            !.stage = IF Len(keys) = 0 THEN "done" ELSE "exec"]
  /\ UNCHANGED <<caches, pc, ncalls, impl, hist, singleVars, batchVars>>

\* pipe.Exec: every queued command gets its result; the error Exec itself
\* returns (the first failing command's) is not looked at
RedisExec ==
  /\ redis.stage = "exec"
  /\ \E cmds \in [1..Len(redis.keys) -> CmdResults] :
       redis' = [redis EXCEPT !.cmds = cmds, !.i = 1, !.stage = "collect"]
  /\ UNCHANGED <<caches, pc, ncalls, impl, hist, singleVars, batchVars>>

\* (mutant: a command error other than redis.Nil is returned to the caller)
RedisCollectStepReturnsError ==
  /\ redis.stage = "collect"
  /\ LET i == redis.i
         result == redis.cmds[i]
         value == Decode(result)
         next == IF i < Len(redis.keys) THEN "collect" ELSE "done"
     IN IF result = RedisErr
        THEN redis' = [redis EXCEPT !.err = [kind |-> "redis error", tier |-> -1, op |-> "-"],
                                    !.results = EmptyMap, !.stage = "done"]
        ELSE IF result = RedisNil \/ value.err # Nil
        THEN redis' = [redis EXCEPT !.i = i + 1, !.stage = next]
        ELSE redis' = [redis EXCEPT !.i = i + 1, !.stage = next,
                                    !.results = Merged(@, MapOver({redis.keys[i]}, value.val))]
  /\ UNCHANGED <<caches, pc, ncalls, impl, hist, singleVars, batchVars>>

\* one iteration of the loop over cmds: a command that failed (redis.Nil or
\* not) or whose bytes do not decode is skipped, a decoded value is stored under
\* its key; after the last command BatchGet returns (results, nil)
RedisCollectStep ==
  /\ redis.stage = "collect"
  /\ LET i == redis.i
         result == redis.cmds[i]
         value == Decode(result)
         next == IF i < Len(redis.keys) THEN "collect" ELSE "done"
     IN IF result \in {RedisNil, RedisErr} \/ value.err # Nil
        THEN redis' = [redis EXCEPT !.i = i + 1, !.stage = next]
        ELSE redis' = [redis EXCEPT !.i = i + 1, !.stage = next,
                                    !.results = Merged(@, MapOver({redis.keys[i]}, value.val))]
  /\ UNCHANGED <<caches, pc, ncalls, impl, hist, singleVars, batchVars>>

\* ------------------------------------------------------------ specifications
\* n tiers (nil caches filtered out), each holding for the keys K what its
\* backend held before
TypeCaches(n, K, V, T) ==
  [0..(n - 1) ->
     {c \in [Keys -> {NoEntry} \cup {Entry(v, t) : v \in V, t \in T}] :
        \A k \in Keys \ K : c[k] = NoEntry}]

\* NewTieredCache / NewBatchTieredCache: the state after construction
InitWith(C, version) ==
  /\ caches \in C
  /\ impl = version
  /\ sfGroup = [k \in Keys |-> NoCall]
  /\ pc = [p \in Callers |-> "idle"]
  /\ call = [p \in Callers |-> NoArgs]
  /\ loc = [p \in Callers |-> InitLoc]
  /\ ret = [p \in Callers |-> NoRet]
  /\ log = [p \in Callers |-> <<>>]
  /\ ncalls = [p \in Callers |-> 0]
  /\ bcall = [p \in Callers |-> NoBatchArgs]
  /\ bloc = [p \in Callers |-> InitBatchLoc]
  /\ bret = [p \in Callers |-> NoBatchRet]
  /\ blog = [p \in Callers |-> <<>>]
  /\ hist = NoHist
  /\ redis = NoRedisCall

\* the steps of a call of TieredCache by caller p
TieredStep(p) ==
  \/ GetCacheStep(p)
  \/ PopulateStep(p)
  \/ SfDo(p)
  \/ ComputeStart(p)
  \/ ComputeEnd(p)
  \/ SetCacheStep(p)
  \/ SfDone(p)
  \/ SfReturn(p)
  \/ DeleteStep(p)

\* Concurrent callers, one call each, of a TieredCache over a local and a
\* remote tier, both empty at construction
ConcKeys == {"A"}
ConcTTLs == {1}
Init == InitWith({[i \in 0..1 |-> EmptyCache]}, "tiers")
Next ==
  \E p \in Callers :
    \/ \E k \in ConcKeys, t \in ConcTTLs, f \in ComputeFns :
         ncalls[p] = 0 /\ CallGet(p, k, t, f)
    \/ \E k \in ConcKeys, v \in Values, t \in ConcTTLs :
         ncalls[p] = 0 /\ CallSet(p, k, v, t)
    \/ \E k \in ConcKeys : ncalls[p] = 0 /\ CallDelete(p, k)
    \/ TieredStep(p)
Spec == Init /\ [][Next]_vars
\* the same, every goroutine being scheduled and every compute function and
\* tier call returning
SpecFair == Spec /\ WF_vars(Next)

\* Concurrent callers, one Get each for the same key, of a TieredCache of two
\* tiers that are empty at construction; every goroutine is scheduled and every
\* compute function and tier call returns
GetsComputeFns == {"fnV1", "fnFail"}
NextGets ==
  \E p \in Callers :
    \/ \E k \in ConcKeys, t \in ConcTTLs, f \in GetsComputeFns :
         ncalls[p] = 0 /\ CallGet(p, k, t, f)
    \/ GetCacheStep(p)
    \/ PopulateStep(p)
    \/ SfDo(p)
    \/ ComputeStart(p)
    \/ ComputeEnd(p)
    \/ SetCacheStep(p)
    \/ SfDone(p)
    \/ SfReturn(p)
SpecGetsFair == Init /\ [][NextGets]_vars /\ WF_vars(NextGets)

\* Concurrent callers, one Get each for the same key with a compute function
\* that honours its context, each caller free to cancel its context during its
\* call; two tiers, empty at construction
NextCancel ==
  \E p \in Callers :
    \/ \E k \in ConcKeys, t \in ConcTTLs, f \in CtxComputeFns :
         ncalls[p] = 0 /\ CallGet(p, k, t, f)
    \/ CancelCtx(p)
    \/ GetCacheStep(p)
    \/ PopulateStep(p)
    \/ SfDo(p)
    \/ ComputeStart(p)
    \/ ComputeEnd(p)
    \/ SetCacheStep(p)
    \/ SfDone(p)
    \/ SfReturn(p)
SpecCancel == Init /\ [][NextCancel]_vars

\* Concurrent callers, one call each, on two keys of a TieredCache of two tiers
\* that are empty at construction
TwoKeys == {"A", "B"}
KeysComputeFns == {"fnV1"}
NextKeys ==
  \E p \in Callers :
    \/ \E k \in TwoKeys, t \in ConcTTLs, f \in KeysComputeFns :
         ncalls[p] = 0 /\ CallGet(p, k, t, f)
    \/ \E k \in TwoKeys, t \in ConcTTLs : ncalls[p] = 0 /\ CallSet(p, k, "v2", t)
    \/ \E k \in TwoKeys : ncalls[p] = 0 /\ CallDelete(p, k)
    \/ TieredStep(p)
SpecKeys == Init /\ [][NextKeys]_vars

\* One caller making MaxCalls calls in sequence on a TieredCache of 1..MaxTiers
\* tiers, whose backends may hold an entry for the key at construction
SeqKeys == {"A"}
InitSeq ==
  InitWith(UNION {TypeCaches(n, SeqKeys, Values, {1}) : n \in 1..MaxTiers}, "tiers")
NextSeq ==
  \/ \E k \in SeqKeys, t \in TTLs, f \in ComputeFns : CallGet(1, k, t, f)
  \/ \E k \in SeqKeys, v \in Values, t \in TTLs : CallSet(1, k, v, t)
  \/ \E k \in SeqKeys : CallDelete(1, k)
  \/ TieredStep(1)
SpecSeq == InitSeq /\ [][NextSeq]_vars

\* One caller making MaxCalls calls in sequence on the local/remote TieredCache
\* (tiered_cache.go), a nil cache left out
InitLR == InitWith(UNION {TypeCaches(n, SeqKeys, Values, {1}) : n \in 1..2}, "localRemote")
NextLR ==
  \/ \E k \in SeqKeys, t \in TTLs, f \in ComputeFns : CallGet(1, k, t, f)
  \/ \E k \in SeqKeys, v \in Values, t \in TTLs : CallSet(1, k, v, t)
  \/ \E k \in SeqKeys : CallDelete(1, k)
  \/ GetCacheStep(1)
  \/ SfDo(1)
  \/ ComputeStart(1)
  \/ ComputeEnd(1)
  \/ SetCacheStep(1)
  \/ SfDone(1)
  \/ SfReturn(1)
  \/ DeleteStep(1)
SpecLR == InitLR /\ [][NextLR]_vars

\* One caller making one call of a BatchTieredCache of 1..MaxTiers tiers, whose
\* backends may hold "v1" for the keys A and B at construction
BatchKeySets == {{}, {"A", "B"}, {"A", "B", "C"}}
BatchTTLs == {2}
InitBatch ==
  InitWith(UNION {TypeCaches(n, {"A", "B"}, {"v1"}, {1}) : n \in 1..MaxTiers}, "tiers")
NextBatch ==
  \/ \E ks \in BatchKeySets, t \in BatchTTLs, f \in BatchComputeFns :
       ncalls[1] = 0 /\ CallBatchGet(1, ks, t, f)
  \/ \E ks \in BatchKeySets, t \in BatchTTLs :
       ncalls[1] = 0 /\ CallBatchSet(1, MapOver(ks, "v2"), t)
  \/ BatchGetTierStep(1)
  \/ BatchPopulateStep(1)
  \/ BatchComputeStart(1)
  \/ BatchComputeEnd(1)
  \/ BatchGetSetStep(1)
  \/ BatchSetStep(1)
SpecBatch == InitBatch /\ [][NextBatch]_vars

\* One caller making one call, single-key or batch, with a ttl of its choice, on
\* two tiers whose backends may hold "v1" for the key A with ttl 1
InitTtl == InitWith(TypeCaches(2, {"A"}, {"v1"}, {1}), "tiers")
NextTtl ==
  \/ \E t \in TTLs, f \in ComputeFns : ncalls[1] = 0 /\ CallGet(1, "A", t, f)
  \/ \E t \in TTLs : ncalls[1] = 0 /\ CallSet(1, "A", "v2", t)
  \/ \E t \in TTLs : ncalls[1] = 0 /\ CallBatchGet(1, {"A", "B"}, t, "bfnAll")
  \/ \E t \in TTLs : ncalls[1] = 0 /\ CallBatchSet(1, MapOver({"A", "B"}, "v2"), t)
  \/ GetCacheStep(1)
  \/ PopulateStep(1)
  \/ SfDo(1)
  \/ ComputeStart(1)
  \/ ComputeEnd(1)
  \/ SetCacheStep(1)
  \/ SfDone(1)
  \/ SfReturn(1)
  \/ BatchGetTierStep(1)
  \/ BatchPopulateStep(1)
  \/ BatchComputeStart(1)
  \/ BatchComputeEnd(1)
  \/ BatchGetSetStep(1)
  \/ BatchSetStep(1)
SpecTtl == InitTtl /\ [][NextTtl]_vars

\* Concurrent callers, one Get or one Delete each for the same key, of a
\* TieredCache of two tiers, each holding the key or not at construction
NextDelete ==
  \E p \in Callers :
    \/ \E t \in ConcTTLs, f \in GetsComputeFns :
         ncalls[p] = 0 /\ CallGet(p, "A", t, f)
    \/ ncalls[p] = 0 /\ CallDelete(p, "A")
    \/ TieredStep(p)
SpecDelete == InitTtl /\ [][NextDelete]_vars

\* Concurrent callers, one BatchGet each for the same keys, of a BatchTieredCache
\* of two tiers that are empty at construction
ConcBatchKeySets == {{"A", "B"}}
ConcBatchComputeFns == {"bfnAll"}
NextBatchConc ==
  \E p \in Callers :
    \/ \E ks \in ConcBatchKeySets, t \in BatchTTLs, f \in ConcBatchComputeFns :
         ncalls[p] = 0 /\ CallBatchGet(p, ks, t, f)
    \/ BatchGetTierStep(p)
    \/ BatchPopulateStep(p)
    \/ BatchComputeStart(p)
    \/ BatchComputeEnd(p)
    \/ BatchGetSetStep(p)
SpecBatchConc == Init /\ [][NextBatchConc]_vars

\* Concurrent callers, one Get each for the same key, each with a compute
\* function and a ttl of its own choice; two tiers, empty at construction
DedupComputeFns == {"fnV1", "fnV2"}
NextDedup ==
  \E p \in Callers :
    \/ \E k \in ConcKeys, t \in TTLs, f \in DedupComputeFns :
         ncalls[p] = 0 /\ CallGet(p, k, t, f)
    \/ GetCacheStep(p)
    \/ PopulateStep(p)
    \/ SfDo(p)
    \/ ComputeStart(p)
    \/ ComputeEnd(p)
    \/ SetCacheStep(p)
    \/ SfDone(p)
    \/ SfReturn(p)
SpecDedup == Init /\ [][NextDedup]_vars

\* One RedisCache.BatchGet call with any key slice and any pipeline results
NextRedis ==
  \/ \E keys \in KeySlices : CallRedisBatchGet(keys)
  \/ RedisExec
  \/ RedisCollectStep
SpecRedis == Init /\ [][NextRedis]_vars

\* ------------------------------------------------------------ what a call did
\* the events of a log of one kind
EventsOf(l, e) == {n \in 1..Len(l) : l[n].ev = e}
\* some tier answered with an error that is not the miss sentinel
TierError(l) == \E n \in 1..Len(l) : l[n].err.kind = "tier error"
\* caller p has returned from a call of operation o
Returned(p, o) == pc[p] = "done" /\ call[p].op = o
BatchReturned(p, o) == pc[p] = "done" /\ bcall[p].op = o
\* every tier holds value v under key k
AllTiersHold(k, v) == \A i \in Tiers : caches[i][k].val = v
\* the tiers, when the call began, held key k in tier i and in no tier above it
FirstHeldIn(k, i) ==
  /\ i \in DOMAIN hist.before
  /\ hist.before[i][k] # NoEntry
  /\ \A j \in 0..(i - 1) : hist.before[j][k] = NoEntry

\* ------------------------------------------------------------ C1
\* C1: at every instant at most one execution of a compute function is in
\* flight for any given key, whatever the interleaving of the callers.
Computing(k) == {p \in Callers : pc[p] = "computing" /\ call[p].key = k}
C1_OneComputeInFlight == \A k \in Keys : Cardinality(Computing(k)) <= 1

\* a compute is in flight while another caller of the same key waits in Do
C1_Witness ==
  \E p, q \in Callers :
    pc[p] = "computing" /\ pc[q] = "sfWait" /\ call[q].key = call[p].key

\* ------------------------------------------------------------ C2
\* every caller has returned from its one call, a Get of key k with compute
\* function f; the tiers were empty when the first of them began, and no tier
\* answered with an infrastructure error
AllGot(k, f) ==
  /\ \A p \in Callers :
       Returned(p, "Get") /\ call[p].key = k /\ call[p].computeFn = f
  /\ \A p \in Callers : ~TierError(log[p])
Computes == Cardinality({p \in Callers : Computed(log[p])})

C3_BackfillOnHit ==
  \A i \in Tiers :
    (Returned(1, "Get") /\ FirstHeldIn(call[1].key, i) /\ EventsOf(log[1], "Get") # {}
       /\ \A n \in EventsOf(log[1], "Get") : log[1][n].err.kind # "tier error")
    => /\ ret[1] = [val |-> hist.before[i][call[1].key].val, err |-> Nil]
       /\ ~TierError(log[1]) =>
            \A j \in 0..(i - 1) : caches[j][call[1].key].val = ret[1].val

\* only tier 2 of 3 held V; after the Get tier 0 and tier 1 hold V
C3_Witness ==
  /\ NumTiers = 3
  /\ Returned(1, "Get") /\ FirstHeldIn("A", 2)
  /\ ret[1] = [val |-> "v2", err |-> Nil]
  /\ caches[0]["A"].val = "v2" /\ caches[1]["A"].val = "v2"

\* ------------------------------------------------------------ C4
\* C4: with every tier empty for K, after a Get(K) whose compute function
\* returns V has returned (V, nil), every tier holds V under K; a subsequent
\* Get(K) (tier 0 answering) returns (V, nil) from tier 0 and does not invoke its
\* compute function, which would fail.
C4_WriteThrough ==
  /\ (Returned(1, "Get") /\ Computed(log[1]) /\ ret[1].err = Nil
        /\ \A i \in Tiers : hist.before[i][call[1].key] = NoEntry)
     => /\ ret[1].val = ComputeFn(call[1].computeFn, call[1].key).val
        /\ AllTiersHold(call[1].key, ret[1].val)
  /\ (Returned(1, "Get") /\ hist.prevCall.op = "Get" /\ hist.prevCall.key = call[1].key
        /\ hist.prevComputed /\ hist.prevRet.err = Nil
        /\ log[1][1].err.kind # "tier error")
     => /\ ret[1] = hist.prevRet
        /\ ~Computed(log[1])
        /\ Len(log[1]) = 1 /\ log[1][1].ev = "Get" /\ log[1][1].tier = 0

\* the second Get, with the failing compute function, returned the value the
\* first one computed; both tiers hold it
C4_Witness ==
  /\ NumTiers = 2
  /\ Returned(1, "Get") /\ call[1].computeFn = "fnFail"
  /\ hist.prevCall.op = "Get" /\ hist.prevComputed
  /\ ret[1] = [val |-> "v1", err |-> Nil]
  /\ AllTiersHold("A", "v1")

\* ------------------------------------------------------------ C5
\* C5: if a tier's Get returns an error that is not the miss sentinel during
\* Get, no further tier is consulted, the compute function is not invoked, and
\* that error is what the caller is returned.
C5_TierErrorAborts ==
  \A n \in 1..Len(log[1]) :
    (call[1].op = "Get" /\ log[1][n].ev = "Get" /\ log[1][n].err.kind = "tier error")
    => /\ n = Len(log[1])
       /\ ~Computed(log[1])
       /\ pc[1] \in {"sfDone", "sfReturn", "done"}
       /\ pc[1] = "done" => ret[1] = [val |-> Zero, err |-> log[1][n].err]

\* tier 0 of several failed on the first lookup: nothing else was done
C5_Witness ==
  /\ NumTiers >= 2
  /\ Returned(1, "Get")
  /\ Len(log[1]) = 1
  /\ ret[1] = [val |-> Zero, err |-> TierErr(0, "Get")]

\* ------------------------------------------------------------ C6
\* tier 0 held only A and tier 1 only B when BatchGet({A,B,C}) began
C6_Scenario ==
  /\ NumTiers = 2
  /\ BatchReturned(1, "BatchGet") /\ bcall[1].keys = {"A", "B", "C"}
  /\ bcall[1].batchComputeFn = "bfnAll"
  /\ {k \in Keys : hist.before[0][k] # NoEntry} = {"A"}
  /\ {k \in Keys : hist.before[1][k] # NoEntry} = {"B"}
  /\ \A n \in 1..Len(blog[1]) : blog[1][n].err = Nil

\* C6: tier 0 holding only A, tier 1 only B, the batch compute function
\* returning C: BatchGet({A,B,C}) returns exactly {A,B,C} with nil error, and
\* afterwards tier 0 holds A, B and C and tier 1 holds at least B and C.
C6_BatchPartialResolution ==
  C6_Scenario =>
    /\ bret[1] = [err |-> Nil,
                  results |-> [k \in {"A", "B", "C"} |->
                                 IF k = "C" THEN "v2" ELSE hist.before[IF k = "A" THEN 0 ELSE 1][k].val]]
    /\ \A k \in {"A", "B", "C"} : caches[0][k].val = bret[1].results[k]
    /\ \A k \in {"B", "C"} : caches[1][k].val = bret[1].results[k]

C6_Witness ==
  /\ C6_Scenario
  /\ DOMAIN bret[1].results = {"A", "B", "C"}
  /\ caches[0]["B"] = Entry("v1", 2) /\ caches[0]["C"] = Entry("v2", 2)

\* ------------------------------------------------------------ C7
\* C7: Delete(K) never returns a tier's miss signal; when no tier fails with
\* another error, it walks every tier, returns nil, and afterwards every tier
\* reports K absent, whichever tiers held K before.
C7_DeleteIgnoresMiss ==
  Returned(1, "Delete") =>
    /\ ret[1].err # ErrCacheMiss
    /\ ~TierError(log[1]) =>
         /\ ret[1].err = Nil
         /\ Len(log[1]) = NumTiers
         /\ \A i \in Tiers : caches[i][call[1].key] = NoEntry

\* K was absent from tier 0 and present in tier 1; Delete returned nil
C7_Witness ==
  /\ Returned(1, "Delete") /\ FirstHeldIn("A", 1)
  /\ log[1][1].err = ErrCacheMiss
  /\ ret[1].err = Nil
  /\ \A i \in Tiers : caches[i]["A"] = NoEntry

\* ------------------------------------------------------------ C8
\* the call that has returned is a successful Set, and so was the call before
\* it, with the same key, value and ttl
C8_SetTwice ==
  /\ Returned(1, "Set") /\ ret[1].err = Nil
  /\ hist.prevCall = call[1] /\ hist.prevRet.err = Nil

\* C8: Set(K, V, ttl) twice in sequence (all tier writes succeeding) leaves
\* every tier as the first Set left it, each tier holding exactly V for K.
C8_SetIdempotent ==
  C8_SetTwice =>
    /\ caches = hist.before
    /\ \A i \in Tiers : caches[i][call[1].key] = Entry(call[1].value, call[1].ttl)

\* both Sets of value v2 succeeded on a cache of several tiers
C8_Witness ==
  /\ C8_SetTwice /\ NumTiers >= 2
  /\ call[1].value = "v2"
  /\ AllTiersHold("A", "v2")

\* ------------------------------------------------------------ C9
\* C9 as claimed: in the local/remote TieredCache, a Get that misses L1 and hits
\* L2 populates L1, so that L1 holds the value after the Get.
C9_L1PopulatedOnL2Hit ==
  (NumTiers = 2 /\ Returned(1, "Get") /\ FirstHeldIn(call[1].key, 1)
     /\ ret[1].err = Nil)
  => caches[0][call[1].key].val = ret[1].val

\* ------------------------------------------------------------ C10
\* the keys the tiers returned to the BatchGet of caller p
FoundInTiers(p) ==
  UNION {DOMAIN blog[p][n].items : n \in EventsOf(blog[p], "BatchGet")}

\* C10: BatchGet invokes the batch compute function at most once: not at all
\* when every requested key was found in some tier, and otherwise exactly once,
\* with exactly the requested keys that no tier returned.
C10_ComputeOnceWithMisses ==
  /\ Cardinality(EventsOf(blog[1], "compute")) <= 1
  /\ \A n \in EventsOf(blog[1], "compute") :
       /\ blog[1][n].keys = bcall[1].keys \ FoundInTiers(1)
       /\ blog[1][n].keys # {}
  /\ BatchReturned(1, "BatchGet") =>
       (bcall[1].keys \subseteq FoundInTiers(1) <=> EventsOf(blog[1], "compute") = {})

\* A and B came from two tiers, the compute function was given C only
C10_Witness ==
  /\ BatchReturned(1, "BatchGet")
  /\ bcall[1].keys = {"A", "B", "C"}
  /\ FoundInTiers(1) = {"A", "B"}
  /\ \E n \in EventsOf(blog[1], "compute") : blog[1][n].keys = {"C"}

\* ------------------------------------------------------------ C11
\* the BatchGet of caller 1 has returned after its batch compute function failed
C11_ComputeFailed ==
  /\ BatchReturned(1, "BatchGet")
  /\ \E n \in EventsOf(blog[1], "compute") : blog[1][n].err # Nil

\* C11: if the batch compute function returns an error, BatchGet returns that
\* error with a result map of exactly the keys (and values) found in tiers, and
\* nothing is written to any tier after the compute: the keys no tier returned
\* are in every tier as they were.
C11_BatchComputeError ==
  C11_ComputeFailed =>
    /\ bret[1].err = ComputeErr
    /\ DOMAIN bret[1].results = FoundInTiers(1)
    /\ \A n \in EventsOf(blog[1], "BatchGet") : \A k \in DOMAIN blog[1][n].items :
         bret[1].results[k] = blog[1][n].items[k]
    /\ blog[1][Len(blog[1])].ev = "compute"
    /\ \A i \in Tiers : \A k \in bcall[1].keys \ FoundInTiers(1) :
         caches[i][k] = hist.before[i][k]

\* A and B were found in tiers, the compute of C failed: A and B are returned
\* with the error
C11_Witness ==
  /\ C11_ComputeFailed
  /\ bcall[1].keys = {"A", "B", "C"}
  /\ bret[1] = [err |-> ComputeErr, results |-> MapOver({"A", "B"}, "v1")]
  /\ \A i \in Tiers : caches[i]["C"] = NoEntry

\* ------------------------------------------------------------ C12
\* C12: a tier whose BatchGet returns an error contributes no keys and does not
\* end the call: the next tier, or after the last tier the batch compute
\* function, is consulted with the same remaining keys.
C12_TierErrorSkipsTier ==
  \A n \in EventsOf(blog[1], "BatchGet") :
    blog[1][n].err # Nil =>
      /\ blog[1][n].items = EmptyMap
      /\ blog[1][n].keys # {}
      /\ IF n < Len(blog[1])
         THEN /\ blog[1][n + 1].keys = blog[1][n].keys
              /\ IF blog[1][n].tier + 1 < NumTiers
                 THEN blog[1][n + 1].ev = "BatchGet" /\ blog[1][n + 1].tier = blog[1][n].tier + 1
                 ELSE blog[1][n + 1].ev = "compute"
         ELSE /\ bloc[1].remainingKeys = blog[1][n].keys
              /\ IF blog[1][n].tier + 1 < NumTiers
                 THEN pc[1] = "batchGetTier" /\ bloc[1].i = blog[1][n].tier + 1
                 ELSE pc[1] \in {"batchCompute", "batchComputing"}

\* tier 0 failed, tier 1 was asked for the same keys and the rest was computed
C12_Witness ==
  /\ BatchReturned(1, "BatchGet") /\ NumTiers = 2
  /\ Len(blog[1]) >= 3
  /\ blog[1][1].err = TierErr(0, "BatchGet")
  /\ blog[1][2].ev = "BatchGet" /\ blog[1][2].tier = 1 /\ blog[1][2].keys = blog[1][1].keys
  /\ DOMAIN blog[1][2].items = {"A"}
  /\ \E n \in EventsOf(blog[1], "compute") : blog[1][n].keys = blog[1][1].keys \ {"A"}
  /\ bret[1].err = Nil

\* ------------------------------------------------------------ C13
\* the last event of a log, if it is of kind e
LastIs(l, e) == Len(l) > 0 /\ l[Len(l)].ev = e
\* caller p's Get computed a value and a tier's Set of it failed with error e
SetFailedAfterCompute(p, e) ==
  /\ call[p].op = "Get"
  /\ \E n \in EventsOf(log[p], "compute") : log[p][n].err = Nil
  /\ \E m \in EventsOf(log[p], "Set") : log[p][m].err = e
  /\ e.kind = "tier error"
\* caller q was handed (v, e) by the call in flight it had joined
Shared(q, v, e) ==
  \E n \in EventsOf(log[q], "shared") : log[q][n].val = v /\ log[q][n].err = e
SetErrs == {TierErr(i, "Set") : i \in 0..(MaxTiers - 1)}

\* C13: when all tiers miss and the compute function succeeds but a tier Set of
\* the computed value fails, the Get returns that Set error and not the value,
\* and every caller that shared the call in flight returns the same error.
C13_SetErrorAfterCompute ==
  /\ \A p \in Callers : \A m \in EventsOf(log[p], "Set") :
       SetFailedAfterCompute(p, log[p][m].err) =>
         /\ m = Len(log[p])
         /\ pc[p] \in {"sfDone", "sfReturn", "done"}
         /\ pc[p] = "done" => ret[p] = [val |-> Zero, err |-> log[p][m].err]
  /\ \A q \in Callers : \A n \in EventsOf(log[q], "shared") :
       log[q][n].err \in SetErrs =>
         /\ \E p \in Callers \ {q} :
              call[p].key = call[q].key /\ SetFailedAfterCompute(p, log[q][n].err)
         /\ pc[q] = "done" => ret[q] = [val |-> Zero, err |-> log[q][n].err]

\* the Set on the second tier failed: the leader and the waiter return the error
C13_Witness ==
  \E p, q \in Callers :
    /\ p # q
    /\ SetFailedAfterCompute(p, TierErr(1, "Set"))
    /\ \E v \in Values \cup {Zero} : Shared(q, v, TierErr(1, "Set"))
    /\ pc[p] = "done" /\ pc[q] = "done"
    /\ ret[p] = [val |-> Zero, err |-> TierErr(1, "Set")]
    /\ ret[q] = ret[p]

\* ------------------------------------------------------------ C14
\* caller p's Get invoked the compute function, which failed
ComputeFailed(p) ==
  /\ call[p].op = "Get"
  /\ \E n \in EventsOf(log[p], "compute") : log[p][n].err # Nil

\* C14: when the compute function fails, its error is returned unmodified to the
\* caller and to every caller that joined the call in flight; the call writes no
\* tier, and the compute function is not invoked again for those calls.
C14_ComputeErrorNoRetry ==
  /\ \A p \in Callers :
       ComputeFailed(p) =>
         /\ LastIs(log[p], "compute")
         /\ Cardinality(EventsOf(log[p], "compute")) = 1
         /\ EventsOf(log[p], "Set") = {}
         /\ pc[p] \in {"sfDone", "sfReturn", "done"}
         /\ pc[p] = "done" => ret[p] = [val |-> Zero, err |-> ComputeErr]
  /\ \A q \in Callers :
       Shared(q, Zero, ComputeErr) =>
         /\ LastIs(log[q], "shared")
         /\ EventsOf(log[q], "compute") = {} /\ EventsOf(log[q], "Set") = {}
         /\ \E p \in Callers \ {q} : call[p].key = call[q].key /\ ComputeFailed(p)
         /\ pc[q] \in {"sfReturn", "done"}
         /\ pc[q] = "done" => ret[q] = [val |-> Zero, err |-> ComputeErr]

\* the compute failed with a waiter in Do: both return the error, the tiers are
\* still empty
C14_Witness ==
  \E p, q \in Callers :
    /\ ComputeFailed(p) /\ Shared(q, Zero, ComputeErr)
    /\ pc[p] = "done" /\ pc[q] = "done"
    /\ ret[p] = [val |-> Zero, err |-> ComputeErr] /\ ret[q] = ret[p]
    /\ \A i \in Tiers : caches[i] = EmptyCache

\* ------------------------------------------------------------ C15
\* C15: Set writes the tiers in index order; at the first tier whose Set returns
\* an error it stops and returns that error, and no tier with a higher index is
\* written by the call.
C15_SetStopsAtFirstError ==
  call[1].op = "Set" =>
    /\ \A n \in 1..Len(log[1]) :
         /\ log[1][n].ev = "Set" /\ log[1][n].tier = n - 1
         /\ log[1][n].err # Nil => n = Len(log[1]) /\ pc[1] = "done"
         /\ log[1][n].err = Nil =>
              caches[n - 1][call[1].key] = Entry(call[1].value, call[1].ttl)
    /\ \A i \in Tiers : i >= Len(log[1]) => caches[i] = hist.before[i]
    /\ pc[1] = "done" =>
         IF log[1][Len(log[1])].err # Nil
         THEN ret[1].err = log[1][Len(log[1])].err
         ELSE ret[1].err = Nil /\ Len(log[1]) = NumTiers

\* of three tiers the second failed: the first was written, the third was not
C15_Witness ==
  /\ NumTiers = 3 /\ Returned(1, "Set")
  /\ call[1].value = "v2"
  /\ ret[1].err = TierErr(1, "Set")
  /\ Len(log[1]) = 2
  /\ caches[0]["A"].val = "v2"
  /\ caches[2]["A"].val = "v1"

\* ------------------------------------------------------------ C16
\* C16: Delete walks the tiers in index order; an error of a tier that is not
\* the miss sentinel is returned at once and no tier with a higher index is
\* deleted from, so the key may remain in those tiers.
C16_DeleteStopsAtError ==
  call[1].op = "Delete" =>
    /\ \A n \in 1..Len(log[1]) :
         /\ log[1][n].ev = "Delete" /\ log[1][n].tier = n - 1
         /\ log[1][n].err.kind = "tier error" => n = Len(log[1]) /\ pc[1] = "done"
    /\ \A i \in Tiers : i >= Len(log[1]) => caches[i] = hist.before[i]
    /\ (pc[1] = "done" /\ log[1][Len(log[1])].err.kind = "tier error") =>
         ret[1].err = log[1][Len(log[1])].err

\* the first of two tiers failed: the key is still in the second
C16_Witness ==
  /\ NumTiers = 2 /\ Returned(1, "Delete")
  /\ ret[1].err = TierErr(0, "Delete")
  /\ Len(log[1]) = 1
  /\ caches[1]["A"] # NoEntry

\* ------------------------------------------------------------ C17
\* tier i holds every item of the BatchSet of caller 1, with its ttl
HoldsItems(i) ==
  \A k \in DOMAIN bcall[1].items : caches[i][k] = Entry(bcall[1].items[k], bcall[1].ttl)

\* C17: BatchSet writes the full item map to the tiers in index order; the first
\* tier error is returned and stops the walk, the tiers already written keep the
\* items and the tiers after the failing one are not written.
C17_BatchSetStopsAtFirstError ==
  bcall[1].op = "BatchSet" =>
    /\ \A n \in 1..Len(blog[1]) :
         /\ blog[1][n].ev = "BatchSet" /\ blog[1][n].tier = n - 1
         /\ blog[1][n].items = bcall[1].items
         /\ blog[1][n].err # Nil => n = Len(blog[1]) /\ pc[1] = "done"
         /\ blog[1][n].err = Nil => HoldsItems(n - 1)
    /\ \A i \in Tiers : i >= Len(blog[1]) => caches[i] = hist.before[i]
    /\ (pc[1] = "done" /\ DOMAIN bcall[1].items # {}) =>
         IF blog[1][Len(blog[1])].err # Nil
         THEN bret[1].err = blog[1][Len(blog[1])].err
         ELSE bret[1].err = Nil /\ Len(blog[1]) = NumTiers

\* of three tiers the second failed: the first keeps the items, the third has
\* none of them
C17_Witness ==
  /\ NumTiers = 3 /\ BatchReturned(1, "BatchSet")
  /\ DOMAIN bcall[1].items = {"A", "B", "C"}
  /\ bret[1].err = TierErr(1, "BatchSet")
  /\ HoldsItems(0)
  /\ caches[2]["C"] = NoEntry

\* ------------------------------------------------------------ C18
\* what Get returns for the (value, error) Do handed back
Returns(v, e) == IF e # Nil THEN [val |-> Zero, err |-> e] ELSE [val |-> v, err |-> Nil]
\* caller q is in a Get of the key for which caller p is executing its compute
\* function
RequestsDuringCompute(p, q) ==
  /\ p # q
  /\ pc[p] = "computing"
  /\ call[q].op = "Get" /\ call[q].key = call[p].key
  /\ pc[q] \in {"getCache", "populate", "sfDo", "sfWait"}

InCall(q) == pc[q] \notin {"idle", "done"}
\* caller q waits in Do for a call in flight for its own key, run by another
\* caller that is inside its call
WaitsForOwnKey(q) ==
  /\ pc[q] = "sfWait"
  /\ sfGroup[call[q].key].inflight
  /\ LET r == sfGroup[call[q].key].leader
     IN r # q /\ InCall(r) /\ call[r].key = call[q].key /\ loc[r].inSf

\* C19: operations on different keys never block each other: a caller inside a
\* call can always take its next step, unless it waits in Do for the call in
\* flight for its own key; a compute in flight for another key never stops it.
C19_DifferentKeysNeverBlock ==
  \A q \in Callers :
    InCall(q) => (WaitsForOwnKey(q) \/ ENABLED TieredStep(q))

\* the compute functions of two keys are executing at the same time
C19_Witness ==
  \E p, q \in Callers :
    /\ pc[p] = "computing" /\ call[p].key = "A"
    /\ pc[q] = "computing" /\ call[q].key = "B"

\* ------------------------------------------------------------ C20
\* caller p is executing the function it handed to Do
ExecutesInDo(p) ==
  /\ call[p].op = "Get" /\ loc[p].inSf
  /\ pc[p] \in {"getCache", "populate", "compute", "computing", "setCache", "sfDone"}

\* C20: in-flight records do not leak: a record for key K exists exactly while
\* a deduplicated call for K is executing, and when no Get is in progress there
\* is no record, whether the compute succeeded or failed.
C20_NoInflightLeak ==
  /\ \A k \in Keys :
       sfGroup[k].inflight <=> \E p \in Callers : call[p].key = k /\ ExecutesInDo(p)
  /\ \A k \in Keys :
       sfGroup[k].inflight =>
         call[sfGroup[k].leader].key = k /\ ExecutesInDo(sfGroup[k].leader)
  /\ (\A p \in Callers : call[p].op = "Get" => ~InCall(p)) =>
       \A k \in Keys : sfGroup[k] = NoCall

\* one call computed and failed, another computed and succeeded: no record is
\* left when all have returned
C20_Witness ==
  /\ \A p \in Callers : pc[p] = "done"
  /\ \E p, q \in Callers :
       /\ ComputeFailed(p)
       /\ call[q].op = "Get" /\ Computed(log[q]) /\ ret[q].err = Nil
  /\ \A k \in Keys : sfGroup[k] = NoCall

\* ------------------------------------------------------------ C21
\* C21: the batch path has no single-flight protection: every BatchGet that
\* found some requested key in no tier invokes the batch compute function
\* itself, once, with those keys, whatever the other callers are doing; two
\* computes for the same keys can be in flight together.
C21_EachBatchGetComputes ==
  \A p \in Callers :
    /\ pc[p] \in {"batchComputing", "batchGetSet"} =>
         bloc[p].remainingKeys = bcall[p].keys \ FoundInTiers(p)
    /\ (BatchReturned(p, "BatchGet") /\ ~(bcall[p].keys \subseteq FoundInTiers(p))) =>
         /\ Cardinality(EventsOf(blog[p], "compute")) = 1
         /\ \A n \in EventsOf(blog[p], "compute") :
              blog[p][n].keys = bcall[p].keys \ FoundInTiers(p)

\* two callers are executing the batch compute function for the same keys,
\* which are in no tier
C21_Witness ==
  \E p, q \in Callers :
    /\ p # q
    /\ pc[p] = "batchComputing" /\ pc[q] = "batchComputing"
    /\ bloc[p].remainingKeys = {"A", "B"} /\ bloc[q].remainingKeys = {"A", "B"}
    /\ \A i \in Tiers : caches[i] = EmptyCache

\* ------------------------------------------------------------ C22
\* C22: every tier write made for a Get, Set, BatchGet or BatchSet call
\* (backfill, write-through or plain set) carries the ttl the caller supplied,
\* the same for every tier: the entry a tier stores has that ttl.
C22_WritesCarryCallerTtl ==
  /\ \A n \in EventsOf(log[1], "Set") :
       /\ log[1][n].ttl = call[1].ttl
       /\ log[1][n].err = Nil =>
            caches[log[1][n].tier][call[1].key] = Entry(log[1][n].val, call[1].ttl)
  /\ \A n \in EventsOf(blog[1], "BatchSet") :
       /\ blog[1][n].ttl = bcall[1].ttl
       /\ blog[1][n].err = Nil =>
            \A k \in DOMAIN blog[1][n].items :
              caches[blog[1][n].tier][k].ttl = bcall[1].ttl

\* a Get with ttl 2 found in the second tier an entry stored with ttl 1: the
\* first tier was given it with ttl 2
C22_Witness ==
  /\ Returned(1, "Get") /\ call[1].ttl = 2
  /\ hist.before[1]["A"] = Entry("v1", 1) /\ hist.before[0]["A"] = NoEntry
  /\ caches[0]["A"] = Entry("v1", 2)

\* ------------------------------------------------------------ C23
\* the tier and the value of the hit of caller p's Get, as the tier answered it
HitAt(p, i, v) ==
  \E n \in EventsOf(log[p], "Get") :
    log[p][n].tier = i /\ log[p][n].err = Nil /\ log[p][n].val = v
\* the tiers on which caller p's call attempted a Set
SetAttemptedOn(p) == {log[p][m].tier : m \in EventsOf(log[p], "Set")}

\* C23 as claimed: when a Get hits at tier i > 0, a Set is attempted on every
\* tier with index < i, whether or not one of these Sets fails, and the Get
\* returns (value, nil).
C23_BackfillContinuesPastError ==
  \A i \in Tiers \ {0}, v \in Values :
    (Returned(1, "Get") /\ HitAt(1, i, v))
    => /\ \A j \in 0..(i - 1) : j \in SetAttemptedOn(1)
       /\ ret[1] = [val |-> v, err |-> Nil]

\* ------------------------------------------------------------ C24
\* the tiers on which caller p's BatchGet attempted, after the n-th event of its
\* log, a BatchSet of exactly the items its n-th event carries
BatchSetAttemptedOn(p, n) ==
  {blog[p][m].tier : m \in {m \in EventsOf(blog[p], "BatchSet") :
                              m > n /\ blog[p][m].items = blog[p][n].items}}

\* C24 as claimed: when tier i > 0 returns a non-empty subset to BatchGet, a
\* BatchSet of exactly that subset is attempted on every tier with index < i,
\* whether or not one of these BatchSets fails.
C24_BatchBackfillContinuesPastError ==
  BatchReturned(1, "BatchGet") =>
    \A n \in EventsOf(blog[1], "BatchGet") :
      (blog[1][n].tier > 0 /\ blog[1][n].err = Nil /\ blog[1][n].items # EmptyMap)
      => \A j \in 0..(blog[1][n].tier - 1) : j \in BatchSetAttemptedOn(1, n)

\* ------------------------------------------------------------ C25
\* C25: after the batch compute function has returned a non-empty map without
\* error, BatchGet attempts a BatchSet of the whole map on every tier, in tier
\* order and whatever the earlier BatchSets returned; it returns nil and the
\* tier hits merged with the computed map, whether or not a BatchSet failed.
C25_ComputedWrittenToEveryTier ==
  BatchReturned(1, "BatchGet") =>
    \A n \in EventsOf(blog[1], "compute") :
      (blog[1][n].err = Nil /\ blog[1][n].items # EmptyMap)
      => /\ Len(blog[1]) = n + NumTiers
         /\ \A i \in Tiers :
              /\ blog[1][n + 1 + i].ev = "BatchSet"
              /\ blog[1][n + 1 + i].tier = i
              /\ blog[1][n + 1 + i].items = blog[1][n].items
              /\ blog[1][n + 1 + i].err = Nil =>
                   \A k \in DOMAIN blog[1][n].items :
                     caches[i][k].val = blog[1][n].items[k]
         /\ bret[1].err = Nil
         /\ DOMAIN bret[1].results = FoundInTiers(1) \cup DOMAIN blog[1][n].items
         /\ \A k \in DOMAIN blog[1][n].items : bret[1].results[k] = blog[1][n].items[k]

\* of two empty tiers the first refused the computed map and the second took
\* it; BatchGet returned the map and nil
C25_Witness ==
  /\ NumTiers = 2 /\ BatchReturned(1, "BatchGet")
  /\ bcall[1].keys = {"A", "B"} /\ bcall[1].batchComputeFn = "bfnAll"
  /\ \E n \in EventsOf(blog[1], "BatchSet") :
       blog[1][n].tier = 0 /\ blog[1][n].err = TierErr(0, "BatchSet")
  /\ caches[0]["A"] = NoEntry /\ caches[1]["A"] = Entry("v2", 2)
  /\ bret[1] = [err |-> Nil, results |-> MapOver({"A", "B"}, "v2")]

\* ------------------------------------------------------------ C26
\* the events of caller p's Get made by the function it handed to singleflight:
\* those after the first traversal, which missed in every tier
InDoubleCheck(p, n) == n > NumTiers /\ n <= Len(log[p])

\* C26: the function handed to singleflight re-checks the tiers before
\* computing: a compute function is invoked only after a second traversal has
\* missed in every tier; if that traversal hits at tier i (a tier was populated
\* since the first traversal), the compute function is not invoked, the call
\* returns the tier's value with nil, and the tiers above i are given the value
\* as on a hit of the first traversal.
C26_DoubleCheckBeforeCompute ==
  \A p \in Callers :
    /\ \A n \in EventsOf(log[p], "compute") :
         /\ n = 2 * NumTiers + 1
         /\ \A m \in 1..(n - 1) : log[p][m].ev = "Get" /\ IsMiss(log[p][m].err)
    /\ Returned(p, "Get") =>
         \A n \in EventsOf(log[p], "Get") :
           (InDoubleCheck(p, n) /\ log[p][n].err = Nil)
           => /\ ~Computed(log[p])
              /\ ret[p] = [val |-> log[p][n].val, err |-> Nil]
              /\ \A m \in (n + 1)..Len(log[p]) :
                   /\ log[p][m].ev = "Set"
                   /\ log[p][m].tier = m - n - 1
                   /\ log[p][m].tier < log[p][n].tier
                   /\ log[p][m].val = log[p][n].val
              /\ ~TierError(log[p]) => Len(log[p]) = n + log[p][n].tier

\* a Get missed both tiers, found the key in the second tier when it looked
\* again inside singleflight, wrote it to the first and returned it without
\* computing
C26_Witness ==
  \E p \in Callers :
    /\ Returned(p, "Get") /\ ~Computed(log[p])
    /\ Len(log[p]) = NumTiers + 3
    /\ log[p][NumTiers + 2].ev = "Get" /\ log[p][NumTiers + 2].tier = 1
    /\ log[p][NumTiers + 2].err = Nil
    /\ log[p][NumTiers + 3].ev = "Set" /\ log[p][NumTiers + 3].tier = 0
    /\ log[p][NumTiers + 3].err = Nil
    /\ ret[p] = [val |-> log[p][NumTiers + 2].val, err |-> Nil]

\* ------------------------------------------------------------ C27
\* caller q has been released from its wait in Do and not yet returned from Get
Released(q) == call[q].op = "Get" /\ ~loc[q].inSf /\ pc[q] = "sfReturn"
\* caller p has run, to its end, the function it handed to Do for caller q's key
\* and q holds the result of that function
HoldsResultOfCompletedCall(q, p) ==
  /\ call[p].op = "Get" /\ call[p].key = call[q].key /\ loc[p].inSf
  /\ pc[p] \in {"sfReturn", "done"}
  /\ loc[q].val = loc[p].val /\ loc[q].err = loc[p].err

\* C27: a caller that joined a call in flight does not return before the
\* function of that call (tier re-check, compute, write-through) has returned:
\* while it waits the call is still executing, and once released it holds the
\* result of a call that has completed; and, every tier operation and compute
\* function returning, every such waiter eventually returns.
C27_WaitersWaitThenReturn ==
  \A q \in Callers :
    /\ [](pc[q] = "sfWait" =>
            WaitsForOwnKey(q) /\ ExecutesInDo(sfGroup[call[q].key].leader))
    /\ [](Released(q) => \E p \in Callers \ {q} : HoldsResultOfCompletedCall(q, p))
    /\ (pc[q] = "sfWait" ~> pc[q] = "done")

\* a waiter has returned the error of the compute function that another caller
\* executed
C27_Witness ==
  \E p, q \in Callers :
    /\ p # q /\ pc[q] = "done" /\ pc[p] = "done"
    /\ Shared(q, Zero, ComputeErr) /\ ~Computed(log[q])
    /\ \E n \in EventsOf(log[p], "compute") : log[p][n].err = ComputeErr
    /\ ret[q] = [val |-> Zero, err |-> ComputeErr]

\* ------------------------------------------------------------ C28
\* caller q's context was cancelled while q waited in Do for a call in flight
CancelledWaiting(q) == EventsOf(log[q], "cancel waiting") # {}

C29_StopsAtFirstHit ==
  call[1].op = "Get" =>
    /\ \A n \in EventsOf(log[1], "Get") :
         /\ n <= 2 * NumTiers
         /\ log[1][n].tier = (n - 1) % NumTiers
    /\ \A n \in EventsOf(log[1], "Get") :
         log[1][n].err = Nil
         => LET i == log[1][n].tier
            IN /\ \A m \in 1..Len(log[1]) :
                    /\ m < n => log[1][m].ev = "Get" /\ IsMiss(log[1][m].err)
                    /\ m > n => log[1][m].ev = "Set" /\ log[1][m].tier < i
               /\ ~Computed(log[1])
               /\ SetAttemptedOn(1) \subseteq 0..(i - 1)
               /\ \A j \in i..(NumTiers - 1) : caches[j] = hist.before[j]

\* the key was held by tiers 1 and 2 of three: tier 0 and tier 1 were read,
\* tier 0 was written and tier 2 was neither read nor written
C29_Witness ==
  /\ NumTiers = 3 /\ Returned(1, "Get")
  /\ hist.before[0]["A"] = NoEntry
  /\ hist.before[1]["A"] = Entry("v2", 1) /\ hist.before[2]["A"] = Entry("v1", 1)
  /\ Len(log[1]) = 3
  /\ log[1][2].ev = "Get" /\ log[1][2].tier = 1 /\ log[1][2].err = Nil
  /\ log[1][3].ev = "Set" /\ log[1][3].tier = 0 /\ log[1][3].err = Nil
  /\ caches[0]["A"].val = "v2" /\ caches[2]["A"] = Entry("v1", 1)
  /\ ret[1] = [val |-> "v2", err |-> Nil]

\* ------------------------------------------------------------ C30
\* the tier queries of caller p's BatchGet that precede the n-th event of its log
QueriesBefore(p, n) == {m \in EventsOf(blog[p], "BatchGet") : m < n}
\* the keys those queries found
FoundBefore(p, n) == UNION {DOMAIN blog[p][m].items : m \in QueriesBefore(p, n)}

\* C30: BatchGet queries the tiers in index order, starting with tier 0 and
\* skipping none; each query carries exactly the requested keys that no
\* lower-index tier has returned; and no tier is queried with no key left, so
\* once every requested key is found no further tier is queried.
C30_QueriesRemainingKeysInOrder ==
  bcall[1].op = "BatchGet" =>
    \A n \in EventsOf(blog[1], "BatchGet") :
      /\ blog[1][n].tier = Cardinality(QueriesBefore(1, n))
      /\ blog[1][n].keys = bcall[1].keys \ FoundBefore(1, n)
      /\ blog[1][n].keys # {}
      /\ DOMAIN blog[1][n].items \subseteq blog[1][n].keys

\* of three tiers the first held only A and the second B: the first was asked
\* for A and B, the second for B alone and the third not at all
C30_Witness ==
  /\ NumTiers = 3 /\ BatchReturned(1, "BatchGet") /\ bcall[1].keys = {"A", "B"}
  /\ Len(blog[1]) = 3
  /\ blog[1][1].ev = "BatchGet" /\ blog[1][1].tier = 0
  /\ blog[1][1].keys = {"A", "B"} /\ DOMAIN blog[1][1].items = {"A"}
  /\ blog[1][2].ev = "BatchGet" /\ blog[1][2].tier = 1
  /\ blog[1][2].keys = {"B"} /\ DOMAIN blog[1][2].items = {"B"}
  /\ blog[1][3].ev = "BatchSet" /\ blog[1][3].tier = 0
  /\ DOMAIN bret[1].results = {"A", "B"} /\ bret[1].err = Nil

\* ------------------------------------------------------------ C31
\* the commands of the pipeline that fetched bytes which decode
Fetched == {n \in 1..Len(redis.cmds) :
              redis.cmds[n] \in Bytes /\ Decode(redis.cmds[n]).err = Nil}

TierHits(p) ==
  [k \in FoundInTiers(p) |->
     LET n == CHOOSE n \in EventsOf(blog[p], "BatchGet") : k \in DOMAIN blog[p][n].items
     IN blog[p][n].items[k]]
\* what the batch compute function returned to caller p's BatchGet
ComputedMap(p) ==
  IF EventsOf(blog[p], "compute") = {} THEN EmptyMap
  ELSE blog[p][CHOOSE n \in EventsOf(blog[p], "compute") : TRUE].items

\* C32: a BatchGet that returns nil returns exactly the tier hits merged with
\* the map the batch compute function returned: a requested key found in no
\* tier and omitted by the compute function is absent, without error; a key the
\* compute function returned without being asked for is in the result and was
\* part of the BatchSet attempted on every tier.
C32_ResultIsHitsAndComputed ==
  (BatchReturned(1, "BatchGet") /\ bret[1].err = Nil) =>
    /\ bret[1].results = Merged(TierHits(1), ComputedMap(1))
    /\ \A k \in bcall[1].keys \ (FoundInTiers(1) \cup DOMAIN ComputedMap(1)) :
         k \notin DOMAIN bret[1].results
    /\ \A k \in DOMAIN ComputedMap(1) \ bcall[1].keys :
         /\ bret[1].results[k] = ComputedMap(1)[k]
         /\ \A i \in Tiers :
              \E n \in EventsOf(blog[1], "BatchSet") :
                /\ blog[1][n].tier = i /\ blog[1][n].items = ComputedMap(1)
                /\ blog[1][n].err = Nil => caches[i][k].val = ComputedMap(1)[k]

\* asked for A and B, of which the tiers held A only, the compute function
\* returned values for A, B and C: the result and both tiers hold C
C32_Witness ==
  /\ NumTiers = 2 /\ BatchReturned(1, "BatchGet") /\ bret[1].err = Nil
  /\ bcall[1].keys = {"A", "B"} /\ bcall[1].batchComputeFn = "bfnExtra"
  /\ FoundInTiers(1) = {"A"}
  /\ DOMAIN bret[1].results = {"A", "B", "C"}
  /\ caches[0]["C"] = Entry("v2", 2) /\ caches[1]["C"] = Entry("v2", 2)

\* asked for A and B, held by no tier, the compute function returned A only:
\* the result is A alone, with a nil error
C32_OmittedKeyAbsent ==
  /\ BatchReturned(1, "BatchGet") /\ bret[1].err = Nil
  /\ bcall[1].keys = {"A", "B"} /\ bcall[1].batchComputeFn = "bfnNotB"
  /\ FoundInTiers(1) = {}
  /\ bret[1].results = MapOver({"A"}, "v2")

\* ------------------------------------------------------------ C33
\* caller p made, in its current call, a successful Set on tier i that left the
\* entry e under its key
Wrote(p, i, e) ==
  \E n \in EventsOf(log[p], "Set") :
    /\ log[p][n].tier = i /\ log[p][n].err = Nil
    /\ e = Entry(log[p][n].val, call[p].ttl)

\* C33: when concurrent Gets for one key with different compute functions or
\* ttls are deduplicated into one call in flight, only the compute function and
\* the ttl of the caller that started the call are used: a caller that shared
\* the call invoked no compute function and made no tier write, the value it was
\* handed is the one the starting caller's function returns, and every entry in
\* a tier carries the ttl of the caller that wrote it.
C33_OnlyStarterFnAndTtlUsed ==
  /\ \A q \in Callers :
       \A m \in EventsOf(log[q], "shared") :
         /\ ~Computed(log[q])
         /\ EventsOf(log[q], "Set") = {}
         /\ \E p \in Callers \ {q} :
              /\ HoldsResultOfCompletedCall(q, p)
              /\ \A n \in EventsOf(log[p], "compute") :
                   /\ log[p][n].val = ComputeFn(call[p].computeFn, call[p].key).val
                   /\ log[q][m].err = Nil => log[q][m].val = log[p][n].val
  /\ \A i \in Tiers, k \in ConcKeys :
       caches[i][k] # NoEntry =>
         \E p \in Callers : call[p].op = "Get" /\ call[p].key = k /\ Wrote(p, i, caches[i][k])

\* a caller asking with fnV2 and ttl 2 shared the call of a caller asking with
\* fnV1 and ttl 1: it returned v1 and both tiers hold v1 with ttl 1
C33_Witness ==
  \E p, q \in Callers :
    /\ p # q /\ pc[p] = "done" /\ pc[q] = "done"
    /\ call[p].computeFn = "fnV1" /\ call[p].ttl = 1
    /\ call[q].computeFn = "fnV2" /\ call[q].ttl = 2
    /\ Computed(log[p]) /\ Shared(q, "v1", Nil)
    /\ ret[q] = [val |-> "v1", err |-> Nil]
    /\ \A i \in Tiers : caches[i]["A"] = Entry("v1", 1)

\* ------------------------------------------------------------ C34
\* the Get caller 1 has returned from computed a value whose write-through
\* failed at tier j
WriteThroughFailedAt(j) ==
  /\ Returned(1, "Get") /\ Computed(log[1])
  /\ LastIs(log[1], "Set") /\ log[1][Len(log[1])].err = TierErr(j, "Set")
\* the Get caller 1 has returned from follows a Get of the same key whose
\* write-through failed at tier j, and tier 0 answered it
FollowsFailedWriteThrough(j) ==
  /\ Returned(1, "Get")
  /\ hist.prevCall.op = "Get" /\ hist.prevCall.key = call[1].key
  /\ hist.prevComputed /\ hist.prevRet.err = TierErr(j, "Set")
  /\ log[1][1].err.kind # "tier error"
\* what a Get gets when its write-through fails at tier j: the error, the tiers
\* above j holding the computed value, tier j and the tiers below it untouched
PartialWriteThrough(j) ==
  WriteThroughFailedAt(j) =>
    /\ ret[1] = [val |-> Zero, err |-> TierErr(j, "Set")]
    /\ \A i \in 0..(j - 1) :
         caches[i][call[1].key] =
           Entry(ComputeFn(call[1].computeFn, call[1].key).val, call[1].ttl)
    /\ \A i \in j..(NumTiers - 1) :
         caches[i] = hist.before[i] /\ caches[i][call[1].key] = NoEntry
\* the following Get is answered by tier 0 and touches nothing else
ServedFromTierZero(j) ==
  FollowsFailedWriteThrough(j) =>
    /\ ret[1] = [val |-> ComputeFn(hist.prevCall.computeFn, call[1].key).val, err |-> Nil]
    /\ ~Computed(log[1])
    /\ Len(log[1]) = 1 /\ log[1][1].ev = "Get" /\ log[1][1].tier = 0
    /\ \A i \in j..(NumTiers - 1) : caches[i][call[1].key] = NoEntry

\* C34 as claimed: for a write-through failing at any tier j, the tiers above j
\* keep the computed value and the others are not written, and a subsequent
\* Get of the key returns the value from tier 0 without computing and without
\* writing tier j or the tiers below it.
C34_NextGetServedFromTierZero ==
  \A j \in Tiers : PartialWriteThrough(j) /\ ServedFromTierZero(j)

\* C34 as amended: the same, the subsequent Get being served from tier 0 when
\* j > 0; after a failure at tier 0 no tier holds the value, and a subsequent
\* Get whose tiers answer misses everywhere and invokes its compute function.
C34_ServedFromTierZeroIfWritten ==
  /\ \A j \in Tiers : PartialWriteThrough(j)
  /\ \A j \in Tiers \ {0} : ServedFromTierZero(j)
  /\ (FollowsFailedWriteThrough(0) /\ ~TierError(log[1])) =>
       /\ Computed(log[1])
       /\ \A n \in 1..(2 * NumTiers) : log[1][n].ev = "Get" /\ IsMiss(log[1][n].err)

\* of three tiers the second refused the computed value; the next Get, whose
\* own compute function fails, returned the value from the first tier and the
\* second and third tiers still do not hold the key
C34_Witness ==
  /\ NumTiers = 3 /\ FollowsFailedWriteThrough(1)
  /\ hist.prevCall.computeFn = "fnV1" /\ call[1].computeFn = "fnFail"
  /\ ret[1] = [val |-> "v1", err |-> Nil]
  /\ Len(log[1]) = 1
  /\ caches[0]["A"].val = "v1" /\ caches[1]["A"] = NoEntry /\ caches[2]["A"] = NoEntry

\* ------------------------------------------------------------ C35
\* every caller has returned from a Set of key k, all of whose tier writes
\* succeeded
AllSetsSucceeded(k) ==
  \A p \in Callers :
    /\ Returned(p, "Set") /\ call[p].key = k
    /\ ret[p].err = Nil /\ ~TierError(log[p])

\* C35 as claimed: after concurrent Set(K, V1, ttl) and Set(K, V2, ttl) on two
\* tiers, all tier writes succeeding, once the calls have returned every tier
\* holds the same value for K.
C35_ConcurrentSetsConverge ==
  \A k \in ConcKeys :
    AllSetsSucceeded(k) => \A i, j \in Tiers : caches[i][k].val = caches[j][k].val

\* ------------------------------------------------------------ C36
\* every caller has returned, some Delete of key k returned nil, and no call
\* was a Set or ran a compute function
DeletedWithoutSetOrCompute(k) ==
  /\ \A p \in Callers :
       /\ pc[p] = "done" /\ call[p].key = k
       /\ call[p].op \in {"Get", "Delete"}
       /\ ~Computed(log[p])
  /\ \E p \in Callers : Returned(p, "Delete") /\ ret[p].err = Nil

\* C36 as claimed: after Delete(K) returns nil, with no Set(K) and no compute
\* for K running during or after the Delete, no tier holds K once all calls
\* have returned, even when a Get(K) that hits a lower tier and backfills the
\* upper tiers runs concurrently with the Delete.
C36_DeletedKeyStaysDeleted ==
  DeletedWithoutSetOrCompute("A") => \A i \in Tiers : caches[i]["A"] = NoEntry

====
